---- MODULE Spec2Model ----
(***************************************************************************)
(* Device-state / rollback store and boot flow of kernelflinger.           *)
(*                                                                         *)
(* The persistent platform (TPM NV indices, EFI variables) is one record,  *)
(* `plat`; every C function that talks to it is an operator taking the     *)
(* platform and returning R(ret, p, out): the EFI_STATUS, the platform     *)
(* afterwards and the out-parameter.                                       *)
(***************************************************************************)
EXTENDS Integers, Sequences, FiniteSets, TLC

\* ------------------------------------------------------------------ bounds
\* rollback slots of the TPM record (ARRAY_SIZE(rollback_index), scaled down)
NumSlots == 1
\* largest rollback index value a caller supplies
MaxIndex == 1
\* longest run of platform calls before an injected fault, in init(), seal()
\* and provisioning
MaxFuel == 11
\* the same for the operations that make at most two distinct platform calls
ShortFuel == 1
\* the same for the steps of a boot
BootFuel == 0

\* ---------------------------------------------------------- program constants
\* INT8 retry_times = 5 in tpm2_write_nvindex / tpm2_read_nvindex
RetryTimes == 5
\* enum device_state / OEM_LOCK_UNLOCKED
UNKNOWN_STATE == -1
LOCKED == 0
UNLOCKED == 1
OEM_LOCK_UNLOCKED == 1

Slots == 0 .. (NumSlots - 1)
\* slots a caller may pass: one past the TPM array too
CallSlots == 0 .. NumSlots
Values == 0 .. MaxIndex
Idx == {"SEED", "BL"}

EFI_ERROR(ret) == ret # "EFI_SUCCESS"

R(ret, p, out) == [ret |-> ret, p |-> p, out |-> out]

\* "ret = f(...); if (EFI_ERROR(ret)) return ret;" and then the rest, which
\* gets what f returned
Then(r, rest(_)) == IF EFI_ERROR(r.ret) THEN r ELSE rest(r)

\* "ret = f(...);" and then the rest, whatever f returned
With(r, rest(_)) == rest(r)

\* ------------------------------------------------------------ fault budget
\* fault.n platform calls succeed, the next one fails; a stuck fault keeps
\* failing, a transient one fails once.
NoFault == [n |-> MaxFuel + 1, stuck |-> FALSE, hit |-> FALSE]
FaultsUpTo(k) == [n : 0 .. k, stuck : BOOLEAN, hit : {FALSE}] \cup {NoFault}
Faults == FaultsUpTo(MaxFuel)
ShortFaults == FaultsUpTo(ShortFuel)
BootFaults == FaultsUpTo(BootFuel)

Failing(p) == p.fault.n = 0

\* one platform call: tick counts the calls of the running operation,
\* fault.hit records that one of them failed
Step(p) ==
    LET q == [p EXCEPT !.tick = @ + 1]
    IN IF p.fault.n = 0
       THEN IF p.fault.stuck THEN [q EXCEPT !.fault.hit = TRUE]
            ELSE [q EXCEPT !.fault = [NoFault EXCEPT !.hit = TRUE]]
       ELSE IF p.fault.n > MaxFuel THEN q ELSE [q EXCEPT !.fault.n = @ - 1]

\* --------------------------------------------------------------- TPM device
FreshIndex == [defined |-> FALSE, written |-> FALSE, rlock |-> FALSE,
               wlock |-> FALSE, good |-> TRUE]
ZeroRollback == [s \in Slots |-> 0]

\* TPM2_NV_ReadPublic: out is "size and attributes match config_table" once
\* the callers have masked WRITTEN and WRITELOCKED (READLOCKED is not masked)
Tpm2NvReadPublic(p, i) ==
    IF Failing(p) THEN R("EFI_DEVICE_ERROR", Step(p), FALSE)
    ELSE IF ~p.nv[i].defined THEN R("EFI_NOT_FOUND", Step(p), FALSE)
    ELSE R("EFI_SUCCESS", Step(p), p.nv[i].good /\ ~p.nv[i].rlock)

\* TPM2_NV_DefineSpace: a new index holds zeroes and is unwritten, unlocked
Tpm2NvDefineSpace(p, i) ==
    IF Failing(p) THEN R("EFI_DEVICE_ERROR", Step(p), 0)
    \* TPM_RH_OWNER with an empty authorisation
    ELSE IF p.owner THEN R("EFI_DEVICE_ERROR", Step(p), 0)
    ELSE IF p.nv[i].defined THEN R("EFI_DEVICE_ERROR", Step(p), 0)
    ELSE LET q == [Step(p) EXCEPT !.nv[i] = [FreshIndex EXCEPT !.defined = TRUE],
                                  !.made = TRUE]
         IN R("EFI_SUCCESS",
              IF i = "BL" THEN [q EXCEPT !.lock_state = 0, !.rollback = ZeroRollback]
              ELSE q,
              0)

Tpm2NvUndefineSpace(p, i) ==
    IF Failing(p) THEN R("EFI_DEVICE_ERROR", Step(p), 0)
    ELSE IF p.owner THEN R("EFI_DEVICE_ERROR", Step(p), 0)
    ELSE IF ~p.nv[i].defined THEN R("EFI_NOT_FOUND", Step(p), 0)
    ELSE R("EFI_SUCCESS", [Step(p) EXCEPT !.nv[i] = FreshIndex], 0)

\* the bytes a write covers: w.field is "all", "lock_state" or "rb"
Store(p, i, w) ==
    IF i # "BL" THEN p
    ELSE IF w.field = "all"
         THEN [p EXCEPT !.lock_state = w.val, !.rollback = ZeroRollback]
    ELSE IF w.field = "lock_state" THEN [p EXCEPT !.lock_state = w.val]
    ELSE IF w.field = "rb" THEN [p EXCEPT !.rollback[w.slot] = w.val]
    ELSE p

\* TPM2_NV_Write: refused on an absent or write-locked index
Tpm2NvWrite(p, i, w) ==
    IF Failing(p) THEN R("EFI_DEVICE_ERROR", Step(p), 0)
    ELSE IF ~p.nv[i].defined THEN R("EFI_NOT_FOUND", Step(p), 0)
    ELSE IF p.nv[i].wlock THEN R("EFI_ACCESS_DENIED", Step(p), 0)
    ELSE R("EFI_SUCCESS", Store([Step(p) EXCEPT !.nv[i].written = TRUE], i, w), 0)

Load(p, i, w) ==
    IF i # "BL" THEN 0
    ELSE IF w.field = "lock_state" THEN p.lock_state
    ELSE IF w.field = "rb" THEN p.rollback[w.slot]
    ELSE 0

\* TPM2_NV_Read: refused on an absent, read-locked or never written index
Tpm2NvRead(p, i, w) ==
    IF Failing(p) THEN R("EFI_DEVICE_ERROR", Step(p), 0)
    ELSE IF ~p.nv[i].defined THEN R("EFI_NOT_FOUND", Step(p), 0)
    ELSE IF p.nv[i].rlock THEN R("EFI_ACCESS_DENIED", Step(p), 0)
    ELSE IF ~p.nv[i].written THEN R("EFI_NOT_READY", Step(p), 0)
    ELSE R("EFI_SUCCESS", Step(p), Load(p, i, w))

\* TPM2_NV_ReadLock (TPMA_NV_READ_STCLEAR): reads blocked until TPM reset
Tpm2NvReadLock(p, i) ==
    IF Failing(p) THEN R("EFI_DEVICE_ERROR", Step(p), 0)
    ELSE IF ~p.nv[i].defined THEN R("EFI_NOT_FOUND", Step(p), 0)
    ELSE R("EFI_SUCCESS", [Step(p) EXCEPT !.nv[i].rlock = TRUE], 0)

\* TPM2_NV_WriteLock (WRITEDEFINE / WRITE_STCLEAR)
Tpm2NvWriteLock(p, i) ==
    IF Failing(p) THEN R("EFI_DEVICE_ERROR", Step(p), 0)
    ELSE IF ~p.nv[i].defined THEN R("EFI_NOT_FOUND", Step(p), 0)
    ELSE R("EFI_SUCCESS", [Step(p) EXCEPT !.nv[i].wlock = TRUE], 0)

Tpm2GetRandom(p) ==
    IF Failing(p) THEN R("EFI_DEVICE_ERROR", Step(p), 0)
    ELSE R("EFI_SUCCESS", Step(p), 0)

Tpm2GetCapability(p) ==
    IF Failing(p) THEN R("EFI_DEVICE_ERROR", Step(p), 0)
    ELSE R("EFI_SUCCESS", Step(p), 0)

\* TPM Reset: *_STCLEAR locks go; a WRITEDEFINE lock on a written index stays
TpmReset(p) ==
    [p EXCEPT !.nv = [i \in Idx |->
        [p.nv[i] EXCEPT !.rlock = FALSE,
                        !.wlock = (i = "SEED") /\ p.nv[i].wlock /\ p.nv[i].written]]]

\* ------------------------------------------------ tpm2_security.c: wrappers
W(field, slot, val) == [field |-> field, slot |-> slot, val |-> val]

tpm2_create_nvindex(p, i) == Tpm2NvDefineSpace(p, i)

RECURSIVE WriteRetry(_, _, _, _)
WriteRetry(p, i, w, retry_times) ==
    With(Tpm2NvWrite(p, i, w), LAMBDA r :
        IF r.ret = "EFI_DEVICE_ERROR" /\ retry_times - 1 > 0
        THEN WriteRetry(r.p, i, w, retry_times - 1)
        ELSE r)

tpm2_write_nvindex(p, i, w) == WriteRetry(p, i, w, RetryTimes)

tpm2_write_lock_nvindex(p, i) == Tpm2NvWriteLock(p, i)

RECURSIVE ReadRetry(_, _, _, _)
ReadRetry(p, i, w, retry_times) ==
    With(Tpm2NvRead(p, i, w), LAMBDA r :
        IF r.ret = "EFI_DEVICE_ERROR" /\ retry_times - 1 > 0
        THEN ReadRetry(r.p, i, w, retry_times - 1)
        ELSE r)

tpm2_read_nvindex(p, i, w) == ReadRetry(p, i, w, RetryTimes)

tpm2_read_lock_nvindex(p, i) == Tpm2NvReadLock(p, i)

tpm2_delete_index(p, i) == Tpm2NvUndefineSpace(p, i)

create_index_and_write_lock(p, i) ==
    Then(tpm2_create_nvindex(p, i), LAMBDA r1 :
    Then(tpm2_write_nvindex(r1.p, i, W("all", 0, 0)), LAMBDA r2 :
    tpm2_write_lock_nvindex(r2.p, i)))

tpm2_check_cap_permanent(p) == Tpm2GetCapability(p)

\* out: TPMA_PERMANENT.ownerAuthSet
tpm2_get_cap_permanent(p) ==
    Then(Tpm2GetCapability(p), LAMBDA r : R("EFI_SUCCESS", r.p, r.p.owner))

\* TPM2_HierarchyChangeAuth(TPM_RH_OWNER) with a non-empty new authorisation
Tpm2HierarchyChangeAuth(p) ==
    IF Failing(p) THEN R("EFI_DEVICE_ERROR", Step(p), 0)
    ELSE R("EFI_SUCCESS", [Step(p) EXCEPT !.owner = TRUE], 0)

tpm2_fuse_trusty_seed(p) ==
    Then(Tpm2GetRandom(p), LAMBDA r1 :
    Then(create_index_and_write_lock(r1.p, "SEED"), LAMBDA r2 :
    tpm2_read_nvindex(r2.p, "SEED", W("all", 0, 0))))

\* secure_boot is is_platform_secure_boot_enabled()
tpm2_fuse_provision_seed(p, secure_boot) ==
    IF ~secure_boot THEN R("EFI_SECURITY_VIOLATION", p, 0)
    ELSE With(tpm2_delete_index(p, "SEED"), LAMBDA r1 :
             IF EFI_ERROR(r1.ret) /\ r1.ret # "EFI_NOT_FOUND" THEN r1
             ELSE tpm2_fuse_trusty_seed(r1.p))

\* tpm2_read_trusty_seed that forgets the "lock anyway"
tpm2_read_trusty_seed_nolock(p) ==
    With(tpm2_read_nvindex(p, "SEED", W("all", 0, 0)), LAMBDA r1 :
        IF EFI_ERROR(r1.ret) THEN R(r1.ret, r1.p, 0)
        ELSE R("EFI_SUCCESS", r1.p, 1))

tpm2_read_trusty_seed(p) ==
    With(tpm2_read_nvindex(p, "SEED", W("all", 0, 0)), LAMBDA r1 :
    With(tpm2_read_lock_nvindex(r1.p, "SEED"), LAMBDA r2 :
        IF EFI_ERROR(r1.ret) THEN R(r1.ret, r2.p, 0)
        ELSE IF EFI_ERROR(r2.ret) THEN R(r2.ret, r2.p, 0)
        ELSE R("EFI_SUCCESS", r2.p, 1)))

tpm2_check_trusty_seed_index(p) ==
    With(Tpm2NvReadPublic(p, "SEED"), LAMBDA r1 :
        IF EFI_ERROR(r1.ret)
        THEN IF r1.ret # "EFI_NOT_FOUND" THEN r1
             ELSE tpm2_fuse_trusty_seed(r1.p)
        ELSE IF ~r1.out THEN R("EFI_COMPROMISED_DATA", r1.p, 0)
        ELSE R("EFI_SUCCESS", r1.p, 0))

tpm2_fuse_bootloader(p) ==
    Then(tpm2_create_nvindex(p, "BL"), LAMBDA r1 :
    Then(tpm2_write_nvindex(r1.p, "BL", W("all", 0, UNLOCKED)), LAMBDA r2 :
    tpm2_read_nvindex(r2.p, "BL", W("all", 0, 0))))

tpm2_check_bootloader_index(p) ==
    With(Tpm2NvReadPublic(p, "BL"), LAMBDA r1 :
        IF EFI_ERROR(r1.ret)
        THEN IF r1.ret # "EFI_NOT_FOUND" THEN r1
             ELSE tpm2_fuse_bootloader(r1.p)
        ELSE IF ~r1.out THEN R("EFI_COMPROMISED_DATA", r1.p, 0)
        ELSE Then(tpm2_read_nvindex(r1.p, "BL", W("struct_ver", 0, 0)), LAMBDA r2 :
                 R("EFI_SUCCESS", r2.p, 0)))

read_device_state_tpm2(p) == tpm2_read_nvindex(p, "BL", W("lock_state", 0, 0))

write_device_state_tpm2(p, state) ==
    tpm2_write_nvindex(p, "BL", W("lock_state", 0, state))

\* Tpm2NvReadPublic(NV_INDEX_OPTEEOS_SEED): the loader never defines this
\* index; plat.optee_seed says that another party did, as configured
Tpm2NvReadPublicOptee(p) ==
    IF Failing(p) THEN R("EFI_DEVICE_ERROR", Step(p), FALSE)
    ELSE IF ~p.optee_seed THEN R("EFI_NOT_FOUND", Step(p), FALSE)
    ELSE R("EFI_SUCCESS", Step(p), TRUE)

\* out of Tpm2NvReadPublic: the public area, WRITTEN and WRITELOCKED masked,
\* equals the entry of config_table
check_provision_status(p) ==
    LET same(r, rest(_)) == IF ~r.out THEN R("EFI_DEVICE_ERROR", r.p, 0)
                            ELSE rest(r)
    IN Then(Tpm2NvReadPublic(p, "SEED"), LAMBDA r1 : same(r1, LAMBDA a :
       Then(Tpm2NvReadPublicOptee(a.p), LAMBDA r2 : same(r2, LAMBDA b :
       Then(Tpm2NvReadPublic(b.p, "BL"), LAMBDA r3 : same(r3, LAMBDA c :
       R("EFI_SUCCESS", c.p, 0)))))))

\* secure_boot is is_platform_secure_boot_enabled()
tpm2_fuse_lock_owner_unchecked(p, secure_boot) ==
    Then(tpm2_get_cap_permanent(p), LAMBDA r1 :
    IF r1.out THEN R("EFI_SUCCESS", r1.p, 0)
    ELSE Then(Tpm2GetRandom(r1.p), LAMBDA r4 :
         Then(Tpm2HierarchyChangeAuth(r4.p), LAMBDA r5 :
         Then(tpm2_get_cap_permanent(r5.p), LAMBDA r6 :
         IF ~r6.out THEN R("EFI_SECURITY_VIOLATION", r6.p, 0)
         ELSE R("EFI_SUCCESS", r6.p, 0)))))

tpm2_fuse_lock_owner(p, secure_boot) ==
    Then(tpm2_get_cap_permanent(p), LAMBDA r1 :
    IF r1.out THEN R("EFI_SUCCESS", r1.p, 0)
    ELSE LET r2 == check_provision_status(r1.p)
         IN IF ~secure_boot THEN R("EFI_DEVICE_ERROR", r1.p, 0)
            ELSE IF EFI_ERROR(r2.ret) THEN R("EFI_DEVICE_ERROR", r2.p, 0)
            ELSE Then(read_device_state_tpm2(r2.p), LAMBDA r3 :
                 Then(Tpm2GetRandom(r3.p), LAMBDA r4 :
                 Then(Tpm2HierarchyChangeAuth(r4.p), LAMBDA r5 :
                 Then(tpm2_get_cap_permanent(r5.p), LAMBDA r6 :
                 IF ~r6.out THEN R("EFI_SECURITY_VIOLATION", r6.p, 0)
                 ELSE R("EFI_SUCCESS", r6.p, 0))))))

read_rollback_index_tpm2(p, rollback_index_slot) ==
    IF rollback_index_slot >= NumSlots THEN R("EFI_INVALID_PARAMETER", p, 0)
    ELSE tpm2_read_nvindex(p, "BL", W("rb", rollback_index_slot, 0))

write_rollback_index_tpm2(p, rollback_index_slot, rollback_index) ==
    IF rollback_index_slot >= NumSlots THEN R("EFI_INVALID_PARAMETER", p, 0)
    ELSE tpm2_write_nvindex(p, "BL", W("rb", rollback_index_slot, rollback_index))

\* out is the BOOLEAN result
tpm2_bootloader_need_init(p) ==
    With(Tpm2NvReadPublic(p, "BL"), LAMBDA r :
        R("EFI_SUCCESS", r.p, r.ret = "EFI_NOT_FOUND"))

tpm2_init(p) ==
    Then(tpm2_check_cap_permanent(p), LAMBDA r1 :
    Then(tpm2_check_bootloader_index(r1.p), LAMBDA r2 :
    tpm2_check_trusty_seed_index(r2.p)))

\* a read lock that a second TPM2_NV_ReadLock would release
tpm2_end_toggle(p) ==
    With(tpm2_read_lock_nvindex(p, "SEED"), LAMBDA r1 :
    With(tpm2_read_lock_nvindex(r1.p, "BL"), LAMBDA r2 :
    With(tpm2_write_lock_nvindex(r2.p, "BL"), LAMBDA r3 :
        R("EFI_SUCCESS",
          [r3.p EXCEPT !.nv["BL"].rlock = ~p.nv["BL"].rlock /\ @], 0))))

tpm2_end(p) ==
    With(tpm2_read_lock_nvindex(p, "SEED"), LAMBDA r1 :
    With(tpm2_read_lock_nvindex(r1.p, "BL"), LAMBDA r2 :
    With(tpm2_write_lock_nvindex(r2.p, "BL"), LAMBDA r3 :
        R("EFI_SUCCESS", r3.p, 0))))

\* ------------------------------------------------- vars.c: EFI variable backing
\* gnu-efi GetVariable / SetVariable on the fastboot GUID
get_efi_variable(p, present) ==
    IF Failing(p) THEN R("EFI_DEVICE_ERROR", Step(p), 0)
    ELSE IF ~present THEN R("EFI_NOT_FOUND", Step(p), 0)
    ELSE R("EFI_SUCCESS", Step(p), 0)

set_efi_variable(p) ==
    IF Failing(p) THEN R("EFI_DEVICE_ERROR", Step(p), 0)
    ELSE R("EFI_SUCCESS", Step(p), 0)

\* read_device_state_efi without the test of EFI_VARIABLE_RUNTIME_ACCESS
read_device_state_efi_unchecked(p) ==
    Then(get_efi_variable(p, p.oemlock.present), LAMBDA r :
        R("EFI_SUCCESS", r.p, p.oemlock.val))

\* oemlock.rt: the variable has EFI_VARIABLE_RUNTIME_ACCESS
read_device_state_efi(p) ==
    Then(get_efi_variable(p, p.oemlock.present), LAMBDA r :
        IF p.oemlock.rt THEN R("EFI_SECURITY_VIOLATION", r.p, 0)
        ELSE R("EFI_SUCCESS", r.p, p.oemlock.val))

\* set_efi_variable(&fastboot_guid, OEM_LOCK, ..., TRUE, FALSE): nonvol is
\* TRUE (oemlock.nv), runtime is FALSE (oemlock.rt)
write_device_state_efi(p, state) ==
    Then(set_efi_variable(p), LAMBDA r :
        R("EFI_SUCCESS",
          [r.p EXCEPT !.oemlock = [present |-> TRUE, val |-> state,
                                   rt |-> FALSE, nv |-> TRUE]],
          0))

\* efi_rb[slot] = -1: RollbackIndex_%04x is absent
read_efi_rollback_index(p, rollback_index_slot) ==
    Then(get_efi_variable(p, p.efi_rb[rollback_index_slot] # -1), LAMBDA r :
        R("EFI_SUCCESS", r.p, p.efi_rb[rollback_index_slot]))

write_efi_rollback_index(p, rollback_index_slot, rollback_index) ==
    Then(set_efi_variable(p), LAMBDA r :
        R("EFI_SUCCESS",
          [r.p EXCEPT !.efi_rb[rollback_index_slot] = rollback_index], 0))

\* ---------------------------------------------- remote TEE backing (ivshmem)
\* struct tpm2_int_req from AllocateZeroPool / {0}: payload quadwords q0, q1
ZeroReq(cmd) == [cmd |-> cmd, ret |-> "EFI_SUCCESS", q0 |-> 0, q1 |-> 0]

\* the hypervisor peer serves the request from its TPM and fills the reply
TeePeer(p, req) ==
    LET reply(r, a, b) == R(r.ret, r.p, [req EXCEPT !.ret = r.ret, !.q0 = a, !.q1 = b])
        answer(r) == R(IF r.out THEN "TRUE" ELSE "EFI_SUCCESS", r.p,
                       [req EXCEPT !.ret = IF r.out THEN "TRUE" ELSE "EFI_SUCCESS"])
    IN CASE req.cmd = "TEE_TPM2_INIT" ->
              reply(tpm2_init(p), req.q0, req.q1)
         [] req.cmd = "TEE_TPM2_END" ->
              reply(tpm2_end(p), req.q0, req.q1)
         [] req.cmd = "TEE_TPM2_READ_DEVICE_STATE" ->
              With(read_device_state_tpm2(p), LAMBDA r : reply(r, r.out, req.q1))
         [] req.cmd = "TEE_TPM2_WRITE_DEVICE_STATE" ->
              reply(write_device_state_tpm2(p, req.q0), req.q0, req.q1)
         [] req.cmd = "TEE_TPM2_READ_ROLLBACK_INDEX" ->
              With(read_rollback_index_tpm2(p, req.q0), LAMBDA r :
                  reply(r, req.q0, r.out))
         [] req.cmd = "TEE_TPM2_WRITE_ROLLBACK_INDEX" ->
              reply(write_rollback_index_tpm2(p, req.q0, req.q1), req.q0, req.q1)
         [] req.cmd = "TEE_TPM2_BOOTLOADER_NEED_INIT" ->
              answer(tpm2_bootloader_need_init(p))
         [] OTHER -> R("EFI_UNSUPPORTED", p, [req EXCEPT !.ret = "EFI_UNSUPPORTED"])

\* rot_addr is g_ivshmem_rot_addr: 0 until ivshmem_init found the device.
\* out is the request as the caller sees it afterwards.
ivshmem_rollback_index_interrupt(p, req, rot_addr) ==
    IF rot_addr = 0 THEN R(req.ret, [p EXCEPT !.tick = @ + 1], req)
    ELSE TeePeer([p EXCEPT !.tick = @ + 1], req)

AllocateZeroPool(p) ==
    IF Failing(p) THEN R("EFI_OUT_OF_RESOURCES", Step(p), 0)
    ELSE R("EFI_SUCCESS", Step(p), 0)

tee_tpm2_init(p, rot_addr) ==
    With(ivshmem_rollback_index_interrupt(p, ZeroReq("TEE_TPM2_INIT"), rot_addr),
         LAMBDA r : R(r.out.ret, r.p, 0))

tee_tpm2_end(p, rot_addr) ==
    With(ivshmem_rollback_index_interrupt(p, ZeroReq("TEE_TPM2_END"), rot_addr),
         LAMBDA r : R(r.out.ret, r.p, 0))

\* the request tee_read_device_state_tpm2 hands to the interrupt
tee_read_device_state_req == ZeroReq("TEE_TPM2_READ_DEVICE_STATE")

tee_read_device_state_tpm2(p, rot_addr) ==
    Then(AllocateZeroPool(p), LAMBDA a :
    With(ivshmem_rollback_index_interrupt(a.p, tee_read_device_state_req, rot_addr),
         LAMBDA r : R(r.out.ret, r.p, r.out.q0)))

tee_write_device_state_req(state) ==
    [ZeroReq("TEE_TPM2_WRITE_DEVICE_STATE") EXCEPT !.q0 = state]

tee_write_device_state_tpm2(p, rot_addr, state) ==
    Then(AllocateZeroPool(p), LAMBDA a :
    With(ivshmem_rollback_index_interrupt(a.p, tee_write_device_state_req(state),
                                          rot_addr),
         LAMBDA r : R(r.out.ret, r.p, 0)))

\* rollback_index_slot is never copied into the payload
tee_read_rollback_index_req(rollback_index_slot) ==
    ZeroReq("TEE_TPM2_READ_ROLLBACK_INDEX")

tee_read_rollback_index_tpm2(p, rot_addr, rollback_index_slot) ==
    Then(AllocateZeroPool(p), LAMBDA a :
    With(ivshmem_rollback_index_interrupt(
             a.p, tee_read_rollback_index_req(rollback_index_slot), rot_addr),
         LAMBDA r : R(r.out.ret, r.p, r.out.q1)))

\* neither rollback_index_slot nor rollback_index is copied into the payload
tee_write_rollback_index_req(rollback_index_slot, rollback_index) ==
    ZeroReq("TEE_TPM2_WRITE_ROLLBACK_INDEX")

tee_write_rollback_index_tpm2(p, rot_addr, rollback_index_slot, rollback_index) ==
    Then(AllocateZeroPool(p), LAMBDA a :
    With(ivshmem_rollback_index_interrupt(
             a.p, tee_write_rollback_index_req(rollback_index_slot, rollback_index),
             rot_addr),
         LAMBDA r : R(r.out.ret, r.p, 0)))

\* out is the BOOLEAN result, (BOOLEAN)req.ret
tee_tpm2_bootloader_need_init(p, rot_addr) ==
    With(ivshmem_rollback_index_interrupt(
             p, ZeroReq("TEE_TPM2_BOOTLOADER_NEED_INIT"), rot_addr),
         LAMBDA r : R("EFI_SUCCESS", r.p, r.out.ret # "EFI_SUCCESS"))

\* ------------------------------------------------- the platform at rest
\* a TPM index somebody else defined, with other attributes or size
ForeignIndex == [defined |-> TRUE, written |-> TRUE, rlock |-> FALSE,
                 wlock |-> FALSE, good |-> FALSE]
AbsentVar == [present |-> FALSE, val |-> 0, rt |-> FALSE, nv |-> FALSE]
\* an OEMLock variable planted with EFI_VARIABLE_RUNTIME_ACCESS
PlantedVar == [present |-> TRUE, val |-> OEM_LOCK_UNLOCKED, rt |-> TRUE,
               nv |-> TRUE]

InitPlat ==
    [nv : [Idx -> {FreshIndex, ForeignIndex}],
     lock_state : {0},
     rollback : {ZeroRollback},
     oemlock : {AbsentVar, PlantedVar},
     efi_rb : {[s \in CallSlots |-> -1]},
     owner : {FALSE},
     optee_seed : {FALSE},
     made : {FALSE},
     tick : {0},
     fault : {NoFault}]

\* last.lt:      a write_rollback_index whose value is below the stored one
\* last.changed: the stored value of the slot differs afterwards
\* last.again:   a read_trusty_seed after one that succeeded since TPM reset
\* last.again_index: the same, and the index was not re-fused in between
\* last.created: the operation defined a TPM NV index
\* last.carried: the request sent to the TEE held the caller's arguments
\* last.owned:   the operation set the TPM owner authorisation
\* last.resealed: a seal that follows a seal, nothing in between
\* last.relocked: the same, and a lock of an NV index differs afterwards
\* last.first_faulted: the same, and a platform call of the first seal failed
\* last.faulted: a platform call of the operation failed by injected fault
\* last.outside: the slot passed is outside the array of the record
\* last.rewrote: the rollback indices held differ after the operation
NoOp == [op |-> "boot", ret |-> "EFI_SUCCESS", lt |-> FALSE, changed |-> FALSE,
         again |-> FALSE, again_index |-> FALSE,
         created |-> FALSE, carried |-> TRUE, faulted |-> FALSE,
         owned |-> FALSE, resealed |-> FALSE, relocked |-> FALSE,
         first_faulted |-> FALSE, outside |-> FALSE, rewrote |-> FALSE]

\* plat.made: the running operation defined a TPM NV index
Armed(p, f) == [p EXCEPT !.fault = f, !.made = FALSE, !.tick = 0]
Settled(p) == [p EXCEPT !.fault = NoFault, !.made = FALSE, !.tick = 0]

\* ------------------------------------------- DeviceStateStore, by backing
store_init(p, tee, andr, rot_addr) ==
    IF tee THEN tee_tpm2_init(p, rot_addr)
    ELSE IF andr THEN tpm2_init(p)
    ELSE R("EFI_SUCCESS", p, 0)

store_seal(p, tee, andr, rot_addr) ==
    IF tee THEN tee_tpm2_end(p, rot_addr)
    ELSE IF andr THEN tpm2_end(p)
    ELSE R("EFI_SUCCESS", p, 0)

read_device_state(p, tee, andr, rot_addr) ==
    IF tee THEN tee_read_device_state_tpm2(p, rot_addr)
    ELSE IF andr THEN read_device_state_tpm2(p)
    ELSE read_device_state_efi(p)

write_device_state(p, tee, andr, rot_addr, stored_state) ==
    IF tee THEN tee_write_device_state_tpm2(p, rot_addr, stored_state)
    ELSE IF andr THEN write_device_state_tpm2(p, stored_state)
    ELSE write_device_state_efi(p, stored_state)

read_rollback_index(p, tee, andr, rot_addr, slot) ==
    IF tee THEN tee_read_rollback_index_tpm2(p, rot_addr, slot)
    ELSE IF andr THEN read_rollback_index_tpm2(p, slot)
    ELSE read_efi_rollback_index(p, slot)

write_rollback_index(p, tee, andr, rot_addr, slot, value) ==
    IF tee THEN tee_write_rollback_index_tpm2(p, rot_addr, slot, value)
    ELSE IF andr THEN write_rollback_index_tpm2(p, slot, value)
    ELSE write_efi_rollback_index(p, slot, value)

\* the value the backing holds for a slot (0 where it holds none)
StoredIndex(p, tee, andr, slot) ==
    IF tee \/ andr
    THEN IF slot \in Slots THEN p.rollback[slot] ELSE 0
    ELSE IF p.efi_rb[slot] = -1 THEN 0 ELSE p.efi_rb[slot]

\* ------------------------------------------------- vars.c: cached lock state
\* v is [current_state, provisioning_mode]; e is the build and platform setup:
\* [tee, andr, rot, live, USER].  Results are VR(ret, p, v, out).
VR(ret, p, v, out) == [ret |-> ret, p |-> p, v |-> v, out |-> out]

InitVars == [current_state |-> UNKNOWN_STATE, provisioning_mode |-> FALSE]

set_provisioning_mode(provisioning) ==
    [current_state |-> IF provisioning THEN UNLOCKED ELSE LOCKED,
     provisioning_mode |-> provisioning]

\* lc is what the platform answers when get_current_state asks it:
\* lc.virt is is_boot_device_virtual(), lc.life what life_cycle_is_enduser
\* returns or reports
LifeCycles ==
    {lc \in [virt : BOOLEAN,
             life : {"EFI_NOT_FOUND", "EFI_DEVICE_ERROR", "enduser", "not_enduser"}] :
        lc.virt => lc.life = "enduser"}
\* the answer taken when nothing is asked
NotAsked == [virt |-> FALSE, life |-> "enduser"]

\* get_current_state with the read failure always taken as unlocked
get_current_state_unlocked(p, v, e, lc) ==
    IF v.current_state # UNKNOWN_STATE
    THEN VR("EFI_SUCCESS", p, v, [read |-> FALSE, ret |-> "EFI_SUCCESS"])
    ELSE IF e.live
    THEN VR("EFI_SUCCESS", p, [v EXCEPT !.current_state = UNLOCKED],
            [read |-> FALSE, ret |-> "EFI_SUCCESS"])
    ELSE With(read_device_state(p, e.tee, e.andr, e.rot), LAMBDA r :
            IF r.ret = "EFI_NOT_FOUND" /\ ~lc.virt
            THEN VR(r.ret, r.p,
                    IF lc.life = "EFI_NOT_FOUND" THEN set_provisioning_mode(TRUE)
                    ELSE IF lc.life = "EFI_DEVICE_ERROR" THEN set_provisioning_mode(FALSE)
                    ELSE IF lc.life = "not_enduser" THEN set_provisioning_mode(TRUE)
                    ELSE IF ~e.USER THEN set_provisioning_mode(TRUE)
                    ELSE set_provisioning_mode(FALSE),
                    [read |-> TRUE, ret |-> r.ret])
            ELSE IF EFI_ERROR(r.ret)
            THEN VR(r.ret, r.p,
                    [v EXCEPT !.current_state = UNLOCKED],
                    [read |-> TRUE, ret |-> r.ret])
            ELSE VR(r.ret, r.p,
                    [v EXCEPT !.current_state =
                        IF r.out % 2 = OEM_LOCK_UNLOCKED THEN UNLOCKED ELSE LOCKED],
                    [read |-> TRUE, ret |-> r.ret]))

\* get_current_state taking any failure of life_cycle_is_enduser for a life
\* cycle that is not supported
get_current_state_any_error(p, v, e, lc) ==
    IF v.current_state # UNKNOWN_STATE
    THEN VR("EFI_SUCCESS", p, v, [read |-> FALSE, ret |-> "EFI_SUCCESS"])
    ELSE IF e.live
    THEN VR("EFI_SUCCESS", p, [v EXCEPT !.current_state = UNLOCKED],
            [read |-> FALSE, ret |-> "EFI_SUCCESS"])
    ELSE With(read_device_state(p, e.tee, e.andr, e.rot), LAMBDA r :
            IF r.ret = "EFI_NOT_FOUND" /\ ~lc.virt
            THEN VR(r.ret, r.p,
                    IF lc.life = "EFI_NOT_FOUND" THEN set_provisioning_mode(TRUE)
                    ELSE IF lc.life = "EFI_DEVICE_ERROR" THEN set_provisioning_mode(TRUE)
                    ELSE IF lc.life = "not_enduser" THEN set_provisioning_mode(TRUE)
                    ELSE IF ~e.USER THEN set_provisioning_mode(TRUE)
                    ELSE set_provisioning_mode(FALSE),
                    [read |-> TRUE, ret |-> r.ret])
            ELSE IF EFI_ERROR(r.ret)
            THEN VR(r.ret, r.p,
                    [v EXCEPT !.current_state = IF e.USER THEN LOCKED ELSE UNLOCKED],
                    [read |-> TRUE, ret |-> r.ret])
            ELSE VR(r.ret, r.p,
                    [v EXCEPT !.current_state =
                        IF r.out % 2 = OEM_LOCK_UNLOCKED THEN UNLOCKED ELSE LOCKED],
                    [read |-> TRUE, ret |-> r.ret]))

\* out.read: the store was read; out.ret: what the read returned
get_current_state(p, v, e, lc) ==
    IF v.current_state # UNKNOWN_STATE
    THEN VR("EFI_SUCCESS", p, v, [read |-> FALSE, ret |-> "EFI_SUCCESS"])
    ELSE IF e.live
    THEN VR("EFI_SUCCESS", p, [v EXCEPT !.current_state = UNLOCKED],
            [read |-> FALSE, ret |-> "EFI_SUCCESS"])
    ELSE With(read_device_state(p, e.tee, e.andr, e.rot), LAMBDA r :
            IF r.ret = "EFI_NOT_FOUND" /\ ~lc.virt
            THEN VR(r.ret, r.p,
                    IF lc.life = "EFI_NOT_FOUND" THEN set_provisioning_mode(TRUE)
                    ELSE IF lc.life = "EFI_DEVICE_ERROR" THEN set_provisioning_mode(FALSE)
                    ELSE IF lc.life = "not_enduser" THEN set_provisioning_mode(TRUE)
                    ELSE IF ~e.USER THEN set_provisioning_mode(TRUE)
                    ELSE set_provisioning_mode(FALSE),
                    [read |-> TRUE, ret |-> r.ret])
            ELSE IF EFI_ERROR(r.ret)
            THEN VR(r.ret, r.p,
                    [v EXCEPT !.current_state = IF e.USER THEN LOCKED ELSE UNLOCKED],
                    [read |-> TRUE, ret |-> r.ret])
            ELSE VR(r.ret, r.p,
                    [v EXCEPT !.current_state =
                        IF r.out % 2 = OEM_LOCK_UNLOCKED THEN UNLOCKED ELSE LOCKED],
                    [read |-> TRUE, ret |-> r.ret]))

set_current_state(p, v, e, state) ==
    IF state \notin {LOCKED, UNLOCKED} THEN VR("EFI_INVALID_PARAMETER", p, v, 0)
    ELSE With(IF ~e.live
              THEN write_device_state(p, e.tee, e.andr, e.rot,
                                      IF state = LOCKED THEN 0 ELSE OEM_LOCK_UNLOCKED)
              ELSE R("EFI_SUCCESS", p, 0),
              LAMBDA r :
                  IF EFI_ERROR(r.ret) THEN VR(r.ret, r.p, v, 0)
                  ELSE VR("EFI_SUCCESS", r.p, [v EXCEPT !.current_state = state], 0))

refresh_current_state(p, v, e, lc) ==
    get_current_state(p, [v EXCEPT !.current_state = UNKNOWN_STATE], e, lc)

\* out is the BOOLEAN result
device_need_locked(p, e) ==
    IF e.live THEN R("EFI_SUCCESS", p, FALSE)
    ELSE IF e.tee THEN tee_tpm2_bootloader_need_init(p, e.rot)
    ELSE IF e.andr THEN tpm2_bootloader_need_init(p)
    ELSE With(read_device_state_efi(p), LAMBDA r :
             R(r.ret, r.p, r.ret = "EFI_NOT_FOUND"))

\* out.unlocked is the BOOLEAN result
device_is_unlocked(p, v, e, lc) ==
    With(get_current_state(p, v, e, lc), LAMBDA g :
        VR(g.ret, g.p, g.v, g.out @@ [unlocked |-> g.v.current_state = UNLOCKED]))

\* out.provisioning is the BOOLEAN result
device_is_provisioning(p, v, e, lc) ==
    With(get_current_state(p, v, e, lc), LAMBDA g :
        VR(g.ret, g.p, g.v, g.out @@ [provisioning |-> g.v.provisioning_mode]))

\* ----------------------------------------------------- verifier (spec 4.4)
\* img is the boot image on disk: the key its vbmeta verifies against
\* ("embedded", "user" or "bad") and its rollback index for location 0.
Images == [key : {"embedded", "user", "bad"}, idx : Values]
NoImage == [key |-> "embedded", idx |-> 0]

\* out is [boot_state, wrote]: wrote says write_rollback_index was issued
android_image_load_partition_avb_ab(p, e, unlocked, img) ==
    With(read_rollback_index(p, e.tee, e.andr, e.rot, 0), LAMBDA r :
        LET stored == IF EFI_ERROR(r.ret) THEN 0 ELSE r.out
            verified == IF img.key = "embedded" THEN "GREEN"
                        ELSE IF img.key = "user" THEN "YELLOW"
                        ELSE "RED"
            boot_state == IF unlocked THEN "ORANGE"
                          ELSE IF stored > img.idx THEN "RED"
                          ELSE verified
        IN IF boot_state = "GREEN" /\ img.idx > stored
           THEN R("EFI_SUCCESS",
                  write_rollback_index(r.p, e.tee, e.andr, e.rot, 0, img.idx).p,
                  [boot_state |-> boot_state, wrote |-> TRUE])
           ELSE R(IF boot_state = "RED" THEN "EFI_ACCESS_DENIED" ELSE "EFI_SUCCESS",
                  r.p, [boot_state |-> boot_state, wrote |-> FALSE]))

\* ---------------------------------------------- android.c: clear and start
\* mem_map_ok: LibMemoryMap returned the memory map
android_clear_memory(mem_map_ok) ==
    IF ~mem_map_ok THEN "EFI_OUT_OF_RESOURCES" ELSE "EFI_SUCCESS"

\* started: the image passed the header checks and handover_kernel jumped
android_image_start_buffer(p, bootimage, started) ==
    IF ~bootimage THEN R("EFI_INVALID_PARAMETER", p, FALSE)
    ELSE IF ~started THEN R("EFI_LOAD_ERROR", p, FALSE)
    ELSE R("EFI_SUCCESS", p, TRUE)

\* ------------------------------------------------ kernelflinger.c: load_image
\* out: what load_image did: cleared (clear_memory succeeded), sealed (seal
\* was called), quiet (no platform call between seal and the jump), handed
\* (the kernel was started), died (die() was called), tried
\* (android_image_start_buffer was called)
LoadOut == [cleared |-> FALSE, sealed |-> FALSE, quiet |-> FALSE,
            handed |-> FALSE, died |-> FALSE, tried |-> FALSE]

\* load_image without the clear_memory block
load_image_noclear(p, e, bootimage, boot_state, mem_map_ok, setup, started) ==
    IF setup = "die" THEN R("EFI_ABORTED", p, [LoadOut EXCEPT !.died = TRUE])
    ELSE IF setup = "error" THEN R("EFI_DEVICE_ERROR", p, LoadOut)
    ELSE With(store_seal(p, e.tee, e.andr, e.rot), LAMBDA s :
         With(android_image_start_buffer(s.p, bootimage, started), LAMBDA a :
             R(a.ret, a.p, [LoadOut EXCEPT !.sealed = e.tee \/ e.andr,
                                           !.quiet = a.p.tick = s.p.tick,
                                           !.handed = a.out, !.tried = TRUE])))

\* load_image without the call of tee_tpm2_end / tpm2_end
load_image_noseal(p, e, bootimage, boot_state, mem_map_ok, setup, started) ==
    LET clearing == e.USER /\ boot_state = "ORANGE"
        c == IF clearing THEN android_clear_memory(mem_map_ok) ELSE "EFI_SUCCESS"
        cleared == [LoadOut EXCEPT !.cleared = clearing]
    IN IF EFI_ERROR(c) THEN R(c, p, LoadOut)
       ELSE IF setup = "die" THEN R("EFI_ABORTED", p, [cleared EXCEPT !.died = TRUE])
       ELSE IF setup = "error" THEN R("EFI_DEVICE_ERROR", p, cleared)
       ELSE With(android_image_start_buffer(p, bootimage, started), LAMBDA a :
                R(a.ret, a.p, [cleared EXCEPT !.handed = a.out, !.tried = TRUE]))

\* setup: "ok", "error" (setup_acpi_table failed) or "die" (root-of-trust or
\* trusty start failed)
load_image(p, e, bootimage, boot_state, mem_map_ok, setup, started) ==
    LET clearing == e.USER /\ boot_state = "ORANGE"
        c == IF clearing THEN android_clear_memory(mem_map_ok) ELSE "EFI_SUCCESS"
        cleared == [LoadOut EXCEPT !.cleared = clearing]
    IN IF EFI_ERROR(c) THEN R(c, p, LoadOut)
       ELSE IF setup = "die" THEN R("EFI_ABORTED", p, [cleared EXCEPT !.died = TRUE])
       ELSE IF setup = "error" THEN R("EFI_DEVICE_ERROR", p, cleared)
       ELSE With(store_seal(p, e.tee, e.andr, e.rot), LAMBDA s :
            With(android_image_start_buffer(s.p, bootimage, started), LAMBDA a :
                R(a.ret, a.p, [cleared EXCEPT !.sealed = e.tee \/ e.andr,
                                              !.quiet = a.p.tick = s.p.tick,
                                              !.handed = a.out, !.tried = TRUE])))

\* ------------------------------------------------ kernelflinger.c: efi_main
\* efi_main, lines "need_lock = device_need_locked()" to the #endif, with the
\* USER build locking whether or not the record is missing
efi_main_default_state_always(p, v, e) ==
    With(device_need_locked(p, e), LAMBDA n :
        IF ~e.USER THEN set_current_state(n.p, v, e, UNLOCKED)
        ELSE set_current_state(n.p, v, e, LOCKED))

efi_main_default_state(p, v, e) ==
    With(device_need_locked(p, e), LAMBDA n :
        IF ~e.USER THEN set_current_state(n.p, v, e, UNLOCKED)
        ELSE IF n.out THEN set_current_state(n.p, v, e, LOCKED)
        ELSE VR("EFI_SUCCESS", n.p, v, 0))

\* enter_fastboot_mode: 'fastboot boot' is taken only on an unlocked device
fastboot_boot_allowed_always(unlocked) == TRUE

fastboot_boot_allowed(unlocked) == unlocked

\* ------------------------------------------------- boot policy: what it reads
\* #define WATCHDOG_DELAY (10 * 60), in seconds
WATCHDOG_DELAY == 600
\* vars.c: default maximum number of watchdog resets in a row
WATCHDOG_COUNTER_MAX == 2
\* the real-time clock reads a multiple of TimeStep seconds (half the delay),
\* up to MaxTicks of them
TimeStep == WATCHDOG_DELAY \div 2
MaxTicks == 3
Times == {k * TimeStep : k \in 0 .. MaxTicks}
\* how many of the signals and persisted values of one boot differ from a
\* quiet cold boot
MaxActive == 3
\* how many boots in a row are followed
MaxBoots == 3

\* EFI variables of the loader and fastboot GUIDs: -1 and "" are "absent"
NoEfiVars == [WDT_COUNTER |-> -1, WDT_TIME_REF |-> -1, WDT_COUNTER_MAX |-> -1,
              LOADER_ENTRY_ONESHOT |-> "", REBOOT_REASON |-> "",
              OFF_MODE_CHARGE |-> "", CRASH_EVENT_MENU |-> ""]

\* struct bootloader_message of the misc partition: command is the prefix
\* ("boot-", "bootonce-" or none) and what follows it
EmptyCommand == [prefix |-> "", target |-> ""]
NoMisc == [command |-> EmptyCommand, status |-> ""]

\* vars.c statics: bool_value_t off_mode_charge, crash_event_menu and the
\* reboot_reason buffer of get_reboot_reason, as the loaded image starts
ColdCache == [off_mode_charge |-> [is_cached |-> FALSE, value |-> FALSE],
              crash_event_menu |-> [is_cached |-> FALSE, value |-> FALSE],
              reboot_reason |-> ""]

\* Android.mk: -DUSE_SBL, -DUSE_UI
DefaultCfg == [USE_SBL |-> FALSE, USE_UI |-> TRUE]

\* the signals of a boot with nothing to report: no argument, no sentinel
\* file, no key, a cold reset, the power button, a charged battery; and what
\* the calls outside the policy return
QuietHw == [argv |-> <<>>, sentinel |-> FALSE, key |-> "none",
            reset_source |-> "RESET_NOT_APPLICABLE",
            wake_source |-> "WAKE_POWER_BUTTON_PRESSED", battery |-> "ok",
            file |-> FALSE, prompt |-> "NORMAL_BOOT", fail |-> "none",
            security |-> "EFI_SUCCESS", ivshmem |-> "EFI_SUCCESS",
            tpm |-> "EFI_SUCCESS"]

\* pobs: what the policy of this boot did
\*   h, v0, m0: its signals, and the variables and the BCB it started with
\*   tr:       the signals evaluated, in order, each with what it returned
\*   hit:      the read or write that failed, "none" when none was made
\*   hit_at:   the place in tr of the signal that made it
\*   target:   what choose_boot_target returned, "none" when it did not run
\*   decided:  boot_target once the crash-mode prompt has been answered
\*   next:     "exit" (efi_main returned), "reset" (it rebooted on the answer
\*             to the crash mode prompt) or "go"
\*   acted:    the target efi_main goes on with
\*   how:      "exit", "reset", "halt", "fastboot", "binary" or "boot"
\*   prompted: the number of prompts shown
\*   crash_event: check_watchdog reached the crash event
\*   wd:       what check_watchdog counted
\*   verity:   slot_set_verity_corrupted(TRUE) was called
NoWd == [counted |-> FALSE, late |-> FALSE, c0 |-> 0, max |-> 0]
NoPobs == [h |-> QuietHw, v0 |-> NoEfiVars, m0 |-> NoMisc, tr |-> <<>>,
           hit |-> "none", hit_at |-> 0, target |-> "none",
           decided |-> "none", next |-> "none", acted |-> "none",
           how |-> "none",
           prompted |-> 0, crash_event |-> FALSE, wd |-> NoWd,
           verity |-> FALSE]

\* run: the consecutive boots up to this one whose reset was caused by a
\* watchdog or a panic, none later than WATCHDOG_DELAY after the first
\*   n, start: their number and the time of the first
\*   prompts:  how many of them showed the crash event prompt
\*   clean:    the run began with no counter stored, or right after a run
\*             that did, and check_watchdog counted each of its boots
\*   boots:    the boots so far, of any kind
NoRun == [n |-> 0, start |-> 0, prompts |-> 0, clean |-> TRUE, boots |-> 0]

\* ------------------------------------------- the stepped procedures at rest
\* kernelflinger.c: #define EFI_RESET_WAIT_MS 200
EFI_RESET_WAIT_MS == 200
\* #define DETECT_KEY_STALL_TIME_MS 1
DETECT_KEY_STALL_TIME_MS == 1
\* check_magic_key not started.  var is what reading MagicKeyTimeout gives,
\* press_at the millisecond from which ReadKeyStroke has a key (-1: never),
\* magic whether that key is the magic key, held whether it stays down
NoKey == [pc |-> "idle", var |-> [ret |-> "EFI_NOT_FOUND", value |-> 0],
          press_at |-> -1, magic |-> FALSE, held |-> FALSE,
          wait_ms |-> 0, i |-> 0, stalled |-> 0, reads |-> 0,
          ret |-> "EFI_NOT_READY", target |-> "none"]

\* handover_jump not started.  uefi is is_UEFI(), i the loop counter, fw the
\* key of the memory map the firmware holds now, map_key the key
\* setup_memory_map stored last, efi_memmap whether boot_params points to a
\* map buffer, asked whether the recovery prompt was shown, trace what was
\* done, in order
NoJump == [pc |-> "idle", uefi |-> TRUE, target |-> "NORMAL_BOOT", i |-> 0,
           fw |-> 0, map_key |-> 0, efi_memmap |-> FALSE,
           ret |-> "EFI_LOAD_ERROR", asked |-> FALSE, trace |-> <<>>]

\* ivshmem_rollback_index_interrupt not called.  slot is the ret field of
\* the shared request slot, seen what the loop read there last (-1: not
\* read), build how
\* the compiler translated the loop over the slot, turn the parity of the
\* turns the loop made, ret the ret field handed back to the caller
NoWait == [pc |-> "idle", cmd |-> "none", rot_addr |-> 0, req_size |-> 0,
           build |-> "reread", slot |-> 0, seen |-> -1,
           forwarded |-> FALSE, answered |-> FALSE, turn |-> 0, ret |-> 0]

\* no routine of android.c under way
NoFn == [pc |-> "idle"]

\* no slot metadata in play
NoAb == [cur |-> "none"]

\* ------------------------------------------------------------------- state
VARIABLES
    plat,                \* TPM NV indices, EFI variables, fault budget
    tee_tpm,             \* kernelflinger.c: BOOLEAN tee_tpm
    andr_tpm,            \* kernelflinger.c: BOOLEAN andr_tpm
    secure_boot,         \* is_platform_secure_boot_enabled()
    g_ivshmem_rot_addr,  \* ivshmem.c: 0 until ivshmem_init succeeded
    seed_ok,             \* successful read_trusty_seed calls since TPM reset
    seed_ok_index,       \* the same, since the trusty_seed index was last re-fused
    last,                \* the store operation that ran last, and what it did
    build,               \* "user" (-DUSER -DUSERDEBUG), "userdebug", "eng"
    live_boot,           \* is_live_boot()
    pc,                  \* where efi_main is
    vstate,              \* vars.c: current_state, provisioning_mode
    boot_target,         \* efi_main: boot_target
    boot_state,          \* efi_main: boot_state
    obs,                 \* what this boot did so far
    efivars,             \* the EFI variables the boot policy reads
    misc,                \* the bootloader message of the misc partition
    cache,               \* vars.c: the statics of the accessors
    rtc,                 \* the real-time clock, in seconds
    cfg,                 \* Android.mk: USE_SBL, USE_UI
    pobs,                \* what the policy of this boot did
    run,                 \* the watchdog boots in a row
    key,                 \* check_magic_key: its locals and the console
    hj,                  \* handover_jump: its locals and the firmware's map
    tw,                  \* ivshmem_rollback_index_interrupt: the request slot
    life,                \* is_boot_device_virtual(), life_cycle_is_enduser()
    fn,                  \* android.c: the routine under way, its arguments and result
    ab                   \* the A/B slot metadata of the misc partition, and the boot under way

bootVars == <<build, live_boot, pc, vstate, boot_target, boot_state, obs>>

policyVars == <<efivars, misc, cache, rtc, cfg, pobs, run>>

stepVars == <<key, hj, tw, life, fn, ab>>

vars == <<plat, tee_tpm, andr_tpm, secure_boot, g_ivshmem_rot_addr, seed_ok,
          seed_ok_index, last, build, live_boot, pc, vstate, boot_target,
          boot_state, obs, policyVars, stepVars>>

\* the policy at rest: the store harness and the boot flow leave it there
StepIdle ==
    /\ key = NoKey
    /\ hj = NoJump
    /\ tw = NoWait
    /\ life = NotAsked
    /\ fn = NoFn
    /\ ab = NoAb

PolicyIdle ==
    /\ efivars = NoEfiVars
    /\ misc = NoMisc
    /\ cache = ColdCache
    /\ rtc = 0
    /\ cfg = DefaultCfg
    /\ pobs = NoPobs
    /\ run = NoRun

Backing == IF tee_tpm THEN "tee" ELSE IF andr_tpm THEN "tpm" ELSE "efi"

\* ------------------------------------------------------ what a boot did
\* the lock state the backing holds, -1 where it holds none
PersistedLock(p, tee, andr) ==
    IF tee \/ andr
    THEN IF p.nv["BL"].defined /\ p.nv["BL"].written THEN p.lock_state ELSE -1
    ELSE IF p.oemlock.present THEN p.oemlock.val ELSE -1

NoHand == [done |-> FALSE, boot_state |-> "GREEN", unlocked |-> FALSE,
           cleared |-> FALSE, sealed |-> FALSE, quiet |-> FALSE]

\* obs.lock0:    PersistedLock when efi_main started
\* obs.fastboot: enter_fastboot_mode was entered
\* obs.sealed:   tee_tpm2_end / tpm2_end was called
\* obs.verified_after_seal: the verifier ran after that call
\* obs.wrote_after_seal: the verifier issued write_rollback_index after it
\* obs.gcs:      the store read of the get_current_state of the last step:
\*               "none", "ok", "absent" or "failed"
\* obs.hand:     the handover to the kernel
\* what ivshmem_init and tee_tpm2_init / tpm2_init returned to efi_main, "none"
\* for one that was not called, and the target efi_main had before them
NoInit == [ivshmem |-> "none", tpm |-> "none", target |-> "none"]

NoObs == [lock0 |-> -1, fastboot |-> FALSE, sealed |-> FALSE,
          verified_after_seal |-> FALSE, wrote_after_seal |-> FALSE,
          gcs |-> "none", hand |-> NoHand, init |-> NoInit]

Env == [tee |-> tee_tpm, andr |-> andr_tpm, rot |-> g_ivshmem_rot_addr,
        live |-> live_boot, USER |-> build = "user"]

\* obs after a step whose get_current_state (or wrapper) call was g
SawState(o, g) ==
    [o EXCEPT !.gcs = IF ~g.out.read THEN "none"
                      ELSE IF ~EFI_ERROR(g.out.ret) THEN "ok"
                      ELSE IF g.out.ret = "EFI_NOT_FOUND" THEN "absent"
                      ELSE "failed"]

\* obs after a run r of the verifier
SawVerify(o, r) ==
    [o EXCEPT !.verified_after_seal = @ \/ o.sealed,
              !.wrote_after_seal = @ \/ (o.sealed /\ r.out.wrote)]

\* obs after a run r of load_image with boot state bs on a device whose
\* cached lock state is cs
SawLoad(o, r, bs, cs) ==
    [o EXCEPT !.sealed = @ \/ r.out.sealed,
              !.hand = IF r.out.handed
                       THEN [done |-> TRUE, boot_state |-> bs,
                             unlocked |-> cs = UNLOCKED,
                             cleared |-> r.out.cleared, sealed |-> r.out.sealed,
                             quiet |-> r.out.quiet]
                       ELSE @]

\* obs after a step that asked for no lock state
Quiet(o) == [o EXCEPT !.gcs = "none"]

\* --------------------------------------------------- store harness: actions
InitStore ==
    /\ plat \in InitPlat
    /\ tee_tpm \in BOOLEAN
    /\ andr_tpm \in BOOLEAN
    /\ secure_boot \in BOOLEAN
    /\ g_ivshmem_rot_addr \in {0, 1}
    /\ g_ivshmem_rot_addr = 1 => tee_tpm
    /\ tee_tpm => andr_tpm
    /\ (tee_tpm \/ andr_tpm) => plat.oemlock = AbsentVar
    /\ ~(tee_tpm \/ andr_tpm) => \A i \in Idx : plat.nv[i] = FreshIndex
    /\ seed_ok = 0
    /\ seed_ok_index = 0
    /\ last = NoOp
    /\ build = "user"
    /\ live_boot = FALSE
    /\ pc = "store"
    /\ vstate = InitVars
    /\ boot_target = "NORMAL_BOOT"
    /\ boot_state = "GREEN"
    /\ obs = NoObs
    /\ PolicyIdle
    /\ StepIdle

\* the lock state of every NV index
Locks(p) == [i \in Idx |-> <<p.nv[i].rlock, p.nv[i].wlock>>]

\* the rollback indices a platform holds, in the TPM and in EFI variables
Record(p) == <<p.rollback, p.efi_rb>>

Done(op, r, p0) ==
    [NoOp EXCEPT !.op = op, !.ret = r.ret, !.created = r.p.made,
                 !.faulted = r.p.fault.hit]

Config == <<tee_tpm, andr_tpm, secure_boot, g_ivshmem_rot_addr, bootVars,
            policyVars, stepVars>>

\* init(): tee_tpm2_init / tpm2_init
S_Init(f) ==
    /\ tee_tpm \/ andr_tpm
    /\ LET did(r) == /\ plat' = Settled(r.p)
                     /\ last' = Done("init", r, plat)
       IN did(store_init(Armed(plat, f), tee_tpm, andr_tpm, g_ivshmem_rot_addr))
    /\ UNCHANGED <<Config, seed_ok, seed_ok_index>>

\* seal(): tee_tpm2_end / tpm2_end
S_Seal(f) ==
    /\ tee_tpm \/ andr_tpm
    /\ LET again == last.op = "seal"
           did(r) == /\ plat' = Settled(r.p)
                     /\ last' = [Done("seal", r, plat) EXCEPT
                            !.resealed = again,
                            !.relocked = again /\ Locks(r.p) # Locks(plat),
                            !.first_faulted = again /\ last.faulted]
       IN did(store_seal(Armed(plat, f), tee_tpm, andr_tpm, g_ivshmem_rot_addr))
    /\ UNCHANGED <<Config, seed_ok, seed_ok_index>>

S_ReadLockState(f) ==
    /\ LET did(r) == /\ plat' = Settled(r.p)
                     /\ last' = Done("read_state", r, plat)
       IN did(read_device_state(Armed(plat, f), tee_tpm, andr_tpm, g_ivshmem_rot_addr))
    /\ UNCHANGED <<Config, seed_ok, seed_ok_index>>

S_WriteLockState(f, s) ==
    /\ LET did(r) == /\ plat' = Settled(r.p)
                     /\ last' = Done("write_state", r, plat)
       IN did(write_device_state(Armed(plat, f), tee_tpm, andr_tpm,
                                 g_ivshmem_rot_addr, s))
    /\ UNCHANGED <<Config, seed_ok, seed_ok_index>>

S_ReadRollbackIndex(f, slot) ==
    /\ LET q == tee_read_rollback_index_req(slot)
           did(r) == /\ plat' = Settled(r.p)
                     /\ last' = [Done("read_rb", r, plat) EXCEPT
                                    !.carried = tee_tpm => q.q0 = slot,
                                    !.outside = slot \notin Slots,
                                    !.rewrote = Record(r.p) # Record(plat)]
       IN did(read_rollback_index(Armed(plat, f), tee_tpm, andr_tpm,
                                  g_ivshmem_rot_addr, slot))
    /\ UNCHANGED <<Config, seed_ok, seed_ok_index>>

S_WriteRollbackIndex(f, slot, v) ==
    /\ LET q == tee_write_rollback_index_req(slot, v)
           stored == StoredIndex(plat, tee_tpm, andr_tpm, slot)
           did(r) ==
               /\ plat' = Settled(r.p)
               /\ last' = [Done("write_rb", r, plat) EXCEPT
                              !.lt = v < stored,
                              !.changed = StoredIndex(r.p, tee_tpm, andr_tpm, slot) # stored,
                              !.carried = tee_tpm => (q.q0 = slot /\ q.q1 = v),
                              !.outside = slot \notin Slots,
                              !.rewrote = Record(r.p) # Record(plat)]
       IN did(write_rollback_index(Armed(plat, f), tee_tpm, andr_tpm,
                                   g_ivshmem_rot_addr, slot, v))
    /\ UNCHANGED <<Config, seed_ok, seed_ok_index>>

\* read_trusty_seed(): tpm2_read_trusty_seed
S_ReadTrustySeed(f) ==
    /\ andr_tpm /\ ~tee_tpm
    /\ seed_ok < 2
    /\ LET did(r) ==
               /\ plat' = Settled(r.p)
               /\ last' = [Done("read_seed", r, plat) EXCEPT
                              !.again = seed_ok > 0, !.again_index = seed_ok_index > 0]
               /\ seed_ok' = IF r.ret = "EFI_SUCCESS" THEN seed_ok + 1 ELSE seed_ok
               /\ seed_ok_index' = IF r.ret = "EFI_SUCCESS" THEN seed_ok_index + 1
                                   ELSE seed_ok_index
       IN did(tpm2_read_trusty_seed(Armed(plat, f)))
    /\ UNCHANGED Config

\* provisioning tool: tpm2_fuse_provision_seed
S_FuseProvisionSeed(f) ==
    /\ andr_tpm /\ ~tee_tpm
    /\ LET did(r) ==
               /\ plat' = Settled(r.p)
               /\ last' = Done("provision", r, plat)
               \* the index was deleted: what replaces it has not been read
               /\ seed_ok_index' = IF r.p.nv["SEED"].rlock THEN seed_ok_index ELSE 0
       IN did(tpm2_fuse_provision_seed(Armed(plat, f), secure_boot))
    /\ UNCHANGED <<Config, seed_ok>>

\* power cycle: the TPM resets, the firmware may change the secure-boot setting
S_Reboot ==
    /\ plat' = TpmReset(plat)
    /\ seed_ok' = 0
    /\ seed_ok_index' = 0
    /\ last' = NoOp
    /\ UNCHANGED Config

NextStore ==
    \/ \E f \in Faults : S_Init(f)
    \/ \E f \in Faults : S_Seal(f)
    \/ \E f \in ShortFaults : S_ReadLockState(f)
    \/ \E f \in ShortFaults, s \in {LOCKED, UNLOCKED} : S_WriteLockState(f, s)
    \/ \E f \in ShortFaults, slot \in CallSlots : S_ReadRollbackIndex(f, slot)
    \/ \E f \in ShortFaults, slot \in CallSlots, v \in Values : S_WriteRollbackIndex(f, slot, v)
    \/ \E f \in ShortFaults : S_ReadTrustySeed(f)
    \/ \E f \in Faults : S_FuseProvisionSeed(f)
    \/ S_Reboot

SpecStore == InitStore /\ [][NextStore]_vars

TypeOK ==
    /\ plat.fault = NoFault
    /\ plat.lock_state \in {LOCKED, UNLOCKED}
    /\ seed_ok \in 0 .. 2
    /\ seed_ok_index \in 0 .. 2

\* ------------------------------------------------------ claims on the store
\* C1: on every backing a write_rollback_index(i, v) with v below the value
\* stored for slot i is refused with an error and leaves the stored value as
\* it was.
C1_NoRollbackDecrease ==
    (last.op = "write_rb" /\ last.lt) => (EFI_ERROR(last.ret) /\ ~last.changed)

\* C3: whenever seal() returns success the bootloader index is read-locked
\* and the trusty_seed index is read-locked and write-locked.
C3_SealLeavesLocked ==
    (last.op = "seal" /\ last.ret = "EFI_SUCCESS") =>
        /\ plat.nv["BL"].rlock
        /\ plat.nv["SEED"].rlock
        /\ plat.nv["SEED"].wlock

\* C5 as stated: between two TPM resets read_trusty_seed succeeds at most
\* once, and every later call fails with access-denied (a call during which
\* the TPM itself failed is left aside).
C5_SeedOncePerBoot ==
    /\ seed_ok <= 1
    /\ (last.op = "read_seed" /\ last.again /\ ~last.faulted) =>
           last.ret = "EFI_ACCESS_DENIED"

\* C5 as amended: between two TPM resets, and while the trusty_seed index is
\* not deleted and re-fused by tpm2_fuse_provision_seed, read_trusty_seed
\* succeeds at most once; every later call fails, with access-denied unless
\* the TPM command itself failed.
C5_SeedOncePerIndex ==
    /\ seed_ok_index <= 1
    /\ (last.op = "read_seed" /\ last.again_index) =>
           /\ EFI_ERROR(last.ret)
           /\ ~last.faulted => last.ret = "EFI_ACCESS_DENIED"

C5_Witness ==
    /\ last.op = "read_seed"
    /\ last.again_index
    /\ last.ret = "EFI_ACCESS_DENIED"
    /\ seed_ok_index = 1

\* C6: no operation of the store, init() included, defines the bootloader or
\* the trusty_seed index while platform secure boot is disabled.
C6_NoIndexWithoutSecureBoot == ~secure_boot => ~last.created

\* C10: the request a remote-TEE read_rollback_index / write_rollback_index
\* sends carries the slot and the value the caller passed.
C10_TeeRequestCarriesArguments ==
    last.op \in {"read_rb", "write_rb"} => last.carried

\* efi_main taking EFI_NOT_FOUND for a failure as well
efi_main_init_strict(target, tee, andr, live, ivshmem, tpm) ==
    IF ~live /\ (tee \/ andr) /\ EFI_ERROR(tpm) THEN "FASTBOOT"
    ELSE IF tee /\ EFI_ERROR(ivshmem) THEN "FASTBOOT"
    ELSE target

\* efi_main without the test of what tee_tpm2_init / tpm2_init returned
efi_main_init_ivshmem_only(target, tee, andr, live, ivshmem, tpm) ==
    IF tee /\ EFI_ERROR(ivshmem) /\ ivshmem # "EFI_NOT_FOUND" THEN "FASTBOOT"
    ELSE target

\* ivshmem_init and tee_tpm2_init / tpm2_init: ivshmem and tpm are what they
\* return
efi_main_init(target, tee, andr, live, ivshmem, tpm) ==
    IF ~live /\ (tee \/ andr) /\ EFI_ERROR(tpm) /\ tpm # "EFI_NOT_FOUND"
    THEN "FASTBOOT"
    ELSE IF tee /\ EFI_ERROR(ivshmem) /\ ivshmem # "EFI_NOT_FOUND" THEN "FASTBOOT"
    ELSE target

\* ------------------------------------------------------- boot flow: actions
Builds == {"user", "userdebug", "eng"}
Targets == {"NORMAL_BOOT", "FASTBOOT", "POWER_OFF"}
\* what the user answers to boot_error / bootloader_recover_mode
Prompts == {"continue", "halt", "fastboot", "reset"}

Fixed == <<tee_tpm, andr_tpm, secure_boot, build, live_boot, seed_ok,
           seed_ok_index, last, policyVars, stepVars>>

Init ==
    /\ plat \in InitPlat
    /\ tee_tpm \in BOOLEAN
    /\ andr_tpm \in BOOLEAN
    /\ tee_tpm => andr_tpm
    /\ (tee_tpm \/ andr_tpm) => plat.oemlock = AbsentVar
    /\ ~(tee_tpm \/ andr_tpm) => \A i \in Idx : plat.nv[i] = FreshIndex
    /\ secure_boot \in BOOLEAN
    /\ g_ivshmem_rot_addr = 0
    /\ seed_ok = 0
    /\ seed_ok_index = 0
    /\ last = NoOp
    /\ build \in Builds
    /\ live_boot \in BOOLEAN
    /\ pc = "start"
    /\ vstate = InitVars
    /\ boot_target = "NORMAL_BOOT"
    /\ boot_state = "GREEN"
    /\ obs = [NoObs EXCEPT !.lock0 = PersistedLock(plat, tee_tpm, andr_tpm)]
    /\ PolicyIdle
    /\ StepIdle

\* the answers of the platform matter only to a get_current_state that reads
Asked(lc) == vstate.current_state = UNKNOWN_STATE \/ lc = NotAsked

\* the verifier of a device known to be unlocked answers ORANGE whatever
\* the image is
Verified(img) == vstate.current_state # UNLOCKED \/ img = NoImage

\* the inputs of load_image that it looks at: the memory map when it clears
\* memory, the image when the setup passed, the jump when there is an image
Looked(bs, mem_map_ok, setup, bootimage, started) ==
    /\ mem_map_ok \/ (build = "user" /\ bs = "ORANGE")
    /\ setup = "ok" \/ (bootimage /\ started)
    /\ bootimage \/ started

\* where a prompt leads
After(prompt, otherwise) ==
    IF prompt = "continue" THEN otherwise
    ELSE IF prompt = "halt" THEN "halt"
    ELSE IF prompt = "fastboot" THEN "fastboot"
    ELSE "reset"

Entering(o, where) == [o EXCEPT !.fastboot = @ \/ where = "fastboot"]

\* efi_main up to the TPM initialisation
M_Start(target, ivsh, f) ==
    /\ pc = "start"
    /\ tee_tpm \/ ivsh = "EFI_NOT_FOUND"
    /\ LET rot == IF tee_tpm /\ ivsh = "EFI_SUCCESS" THEN 1 ELSE 0
           initing == ~live_boot /\ (tee_tpm \/ andr_tpm)
           did(r) ==
               /\ plat' = Settled(r.p)
               /\ g_ivshmem_rot_addr' = rot
               /\ boot_target' = efi_main_init(target, tee_tpm, andr_tpm, live_boot,
                                               ivsh, r.ret)
               /\ obs' = [obs EXCEPT !.init =
                              [ivshmem |-> IF tee_tpm THEN ivsh ELSE "none",
                               tpm |-> IF initing THEN r.ret ELSE "none",
                               target |-> target]]
       IN /\ initing \/ f = NoFault
          /\ did(IF initing THEN store_init(Armed(plat, f), tee_tpm, andr_tpm, rot)
                 ELSE R("EFI_SUCCESS", plat, 0))
    /\ pc' = "default_state"
    /\ UNCHANGED <<Fixed, vstate, boot_state>>

\* efi_main: need_lock, set_current_state, POWER_OFF
M_DefaultState(f) ==
    /\ pc = "default_state"
    /\ LET did(r) == /\ plat' = Settled(r.p)
                     /\ vstate' = r.v
       IN did(efi_main_default_state(Armed(plat, f), vstate, Env))
    /\ pc' = IF boot_target = "POWER_OFF" THEN "halt" ELSE "check_state"
    /\ UNCHANGED <<Fixed, g_ivshmem_rot_addr, boot_target, boot_state, obs>>

\* efi_main: "checking device state" to the entry of fastboot mode
M_CheckState(f, lc, prompt) ==
    /\ pc = "check_state"
    /\ Asked(lc)
    /\ LET p0 == Armed(plat, f)
           none == VR("EFI_SUCCESS", p0, vstate, [read |-> FALSE, ret |-> "EFI_SUCCESS"])
           checked(g) ==
               LET unlocked == g.v.current_state = UNLOCKED
                   yellow == ~live_boot /\ ~unlocked /\ ~secure_boot
                             /\ ~g.v.provisioning_mode
                   bs == IF build = "eng" THEN "RED"
                         ELSE IF live_boot \/ unlocked THEN "ORANGE"
                         ELSE IF yellow THEN "YELLOW"
                         ELSE boot_state
                   lock_prompted == build # "eng" /\ (live_boot \/ yellow)
                   next == IF lock_prompted /\ prompt # "continue"
                           THEN After(prompt, "verify")
                           ELSE IF build = "user" /\ g.v.provisioning_mode THEN "fastboot"
                           ELSE IF boot_target = "FASTBOOT" THEN "fastboot"
                           ELSE IF bs = "ORANGE" /\ ~lock_prompted
                           THEN After(prompt, "verify")
                           ELSE "verify"
                   \* boot_error is shown: the user answers
                   prompted == lock_prompted
                               \/ (~(build = "user" /\ g.v.provisioning_mode)
                                   /\ boot_target # "FASTBOOT" /\ bs = "ORANGE")
               IN /\ prompted \/ prompt = "continue"
                  /\ plat' = Settled(g.p)
                  /\ vstate' = g.v
                  /\ boot_state' = bs
                  /\ pc' = next
                  /\ obs' = Entering(SawState(obs, g), next)
       IN checked(IF build = "eng" THEN none
                  ELSE IF ~live_boot THEN device_is_unlocked(p0, vstate, Env, lc)
                  ELSE IF build = "user" THEN device_is_provisioning(p0, vstate, Env, lc)
                  ELSE none)
    /\ UNCHANGED <<Fixed, g_ivshmem_rot_addr, boot_target>>

\* efi_main: avb_load_verify_boot_image, avb_load_verify_vendor_boot_image
M_Verify(f, lc, img, prompt) ==
    /\ pc = "verify"
    /\ Asked(lc) /\ Verified(img)
    /\ LET verified(u, r1, r2) ==
               LET next == IF r1.out.boot_state = "RED" THEN After(prompt, "load")
                           ELSE "load"
               IN /\ r1.out.boot_state = "RED" \/ prompt = "continue"
                  /\ plat' = Settled(r2.p)
                  /\ vstate' = u.v
                  /\ boot_state' = r1.out.boot_state
                  /\ pc' = next
                  /\ obs' = Entering(SawVerify(SawVerify(SawState(obs, u), r1), r2), next)
           \* avb_load_verify_vendor_boot_image
           vendor(u, r1) ==
               verified(u, r1, android_image_load_partition_avb_ab(
                                   r1.p, Env, u.out.unlocked, img))
           \* avb_load_verify_boot_image
           boot(u) ==
               vendor(u, android_image_load_partition_avb_ab(
                             u.p, Env, u.out.unlocked, img))
       IN boot(device_is_unlocked(Armed(plat, f), vstate, Env, lc))
    /\ UNCHANGED <<Fixed, g_ivshmem_rot_addr, boot_target>>

\* efi_main: load_image and what follows its return
M_Load(f, mem_map_ok, setup, bootimage, started, after) ==
    /\ pc = "load"
    /\ Looked(boot_state, mem_map_ok, setup, bootimage, started)
    /\ LET loaded(r) ==
               LET next == IF r.out.handed THEN "kernel"
                           ELSE IF r.out.died THEN "halt"
                           ELSE after
               IN /\ plat' = Settled(r.p)
                  /\ pc' = next
                  /\ obs' = Entering(SawLoad(Quiet(obs), r, boot_state,
                                             vstate.current_state), next)
       IN loaded(load_image(Armed(plat, f), Env, bootimage, boot_state, mem_map_ok,
                            setup, started))
    /\ UNCHANGED <<Fixed, g_ivshmem_rot_addr, vstate, boot_target, boot_state>>

\* enter_fastboot_mode: a 'flashing lock' / 'flashing unlock' command served
\* inside fastboot_start
F_Flashing(f, state) ==
    /\ pc = "fastboot"
    /\ LET did(r) == /\ plat' = Settled(r.p)
                     /\ vstate' = r.v
       IN did(set_current_state(Armed(plat, f), vstate, Env, state))
    /\ obs' = Quiet(obs)
    /\ UNCHANGED <<Fixed, g_ivshmem_rot_addr, pc, boot_target, boot_state>>

\* fastboot: refresh_current_state after the variables were changed
F_Refresh(f, lc) ==
    /\ pc = "fastboot"
    /\ LET did(g) == /\ plat' = Settled(g.p)
                     /\ vstate' = g.v
                     /\ obs' = SawState(obs, g)
       IN did(refresh_current_state(Armed(plat, f), vstate, Env, lc))
    /\ UNCHANGED <<Fixed, g_ivshmem_rot_addr, pc, boot_target, boot_state>>

\* enter_fastboot_mode: fastboot_start returned a boot image ('fastboot boot')
F_Boot(f, lc, img, mem_map_ok, setup, started) ==
    /\ pc = "fastboot"
    /\ Asked(lc) /\ Verified(img) /\ Looked("ORANGE", mem_map_ok, setup, TRUE, started)
    /\ LET loaded(u, r, l) ==
               /\ plat' = Settled(l.p)
               /\ vstate' = u.v
               /\ pc' = IF l.out.handed THEN "kernel"
                        ELSE IF l.out.died THEN "halt"
                        ELSE "fastboot"
               /\ obs' = SawLoad(SawVerify(SawState(obs, u), r), l, "ORANGE",
                                 u.v.current_state)
           verified(u, r) ==
               loaded(u, r, load_image(r.p, Env, TRUE, "ORANGE", mem_map_ok, setup,
                                       started))
           asked(u) ==
               IF fastboot_boot_allowed(u.out.unlocked)
               THEN verified(u, android_image_load_partition_avb_ab(
                                    u.p, Env, u.out.unlocked, img))
               ELSE \* the command is refused: nothing of the image is looked at
                    /\ img = NoImage /\ mem_map_ok /\ setup = "ok" /\ started
                    /\ plat' = Settled(u.p)
                    /\ vstate' = u.v
                    /\ pc' = pc
                    /\ obs' = SawState(obs, u)
       IN asked(device_is_unlocked(Armed(plat, f), vstate, Env, lc))
    /\ UNCHANGED <<Fixed, g_ivshmem_rot_addr, boot_target, boot_state>>

\* enter_fastboot_mode: reboot_to_target, or fastboot_start failed and die()
F_Leave(how) ==
    /\ pc = "fastboot"
    /\ pc' = how
    /\ obs' = Quiet(obs)
    /\ UNCHANGED <<Fixed, plat, g_ivshmem_rot_addr, vstate, boot_target, boot_state>>

\* the platform resets and efi_main starts again
NewBoot ==
    /\ pc \in {"kernel", "halt", "reset"}
    /\ plat' = TpmReset(plat)
    /\ g_ivshmem_rot_addr' = 0
    /\ vstate' = InitVars
    /\ pc' = "start"
    /\ boot_target' = "NORMAL_BOOT"
    /\ boot_state' = "GREEN"
    /\ obs' = [NoObs EXCEPT !.lock0 = PersistedLock(plat', tee_tpm, andr_tpm)]
    /\ UNCHANGED Fixed

Next ==
    \/ \E t \in Targets, i \in {"EFI_SUCCESS", "EFI_NOT_FOUND", "EFI_DEVICE_ERROR"},
          f \in BootFaults : M_Start(t, i, f)
    \/ \E f \in BootFaults : M_DefaultState(f)
    \/ \E f \in BootFaults, lc \in LifeCycles, a \in Prompts :
          M_CheckState(f, lc, a)
    \/ \E f \in BootFaults, lc \in LifeCycles, img \in Images, a \in Prompts :
          M_Verify(f, lc, img, a)
    \/ \E f \in BootFaults, m \in BOOLEAN, s \in {"ok", "error", "die"},
          b \in BOOLEAN, k \in BOOLEAN, a \in {"reset", "fastboot"} :
          M_Load(f, m, s, b, k, a)
    \/ \E f \in BootFaults, state \in {LOCKED, UNLOCKED} : F_Flashing(f, state)
    \/ \E f \in BootFaults, lc \in LifeCycles : F_Refresh(f, lc)
    \/ \E f \in BootFaults, lc \in LifeCycles, img \in Images, m \in BOOLEAN,
          s \in {"ok", "error", "die"}, k \in BOOLEAN :
          F_Boot(f, lc, img, m, s, k)
    \/ \E how \in {"reset", "halt"} : F_Leave(how)
    \/ NewBoot

Spec == Init /\ [][Next]_vars

C4_SealedBeforeHandover ==
    (obs.hand.done /\ (tee_tpm \/ andr_tpm)) => (obs.hand.sealed /\ obs.hand.quiet)

C4_Witness ==
    /\ pc = "kernel"
    /\ obs.hand.done
    /\ andr_tpm
    /\ obs.hand.sealed
    /\ plat.nv["BL"].rlock

\* C7 as stated: in a boot that never enters fastboot mode the persisted
\* lock state stays what it was when the bootloader was entered.
C7_LockStateOnlyByFastboot ==
    ~obs.fastboot => PersistedLock(plat, tee_tpm, andr_tpm) = obs.lock0

\* C7 as amended: on a USER build that finds a lock state persisted when the
\* bootloader is entered, a boot that never enters fastboot mode leaves the
\* persisted lock state as it was.
C7_UserLockStateOnlyByFastboot ==
    (build = "user" /\ obs.lock0 # -1 /\ ~obs.fastboot) =>
        PersistedLock(plat, tee_tpm, andr_tpm) = obs.lock0

C7_Witness ==
    /\ build = "user"
    /\ obs.lock0 = UNLOCKED
    /\ ~obs.fastboot
    /\ pc = "kernel"
    /\ PersistedLock(plat, tee_tpm, andr_tpm) = UNLOCKED

C9_UnlockedBootClearsMemory ==
    (obs.hand.done /\ obs.hand.unlocked) =>
        (obs.hand.boot_state = "ORANGE" /\ obs.hand.cleared)

\* C9 as amended: on a USER build, when the lock state is Unlocked and a boot
\* image is handed to the kernel, the boot state is ORANGE and clear_memory()
\* succeeded before the jump; when clear_memory() fails load_image returns
\* and the image is not started.
C9_UserUnlockedBootClearsMemory ==
    (build = "user" /\ obs.hand.done /\ obs.hand.unlocked) =>
        (obs.hand.boot_state = "ORANGE" /\ obs.hand.cleared)

C9_Witness ==
    /\ build = "user"
    /\ pc = "kernel"
    /\ obs.hand.done
    /\ obs.hand.unlocked
    /\ obs.hand.cleared
    /\ ~live_boot

\* ================================================================ boot policy
\* The policy works on s = [v, m, c, h, e, now, g]: the EFI variables, the
\* misc partition, the vars.c statics, the signals of this boot, the build
\* (USER, USE_SBL, USE_UI), the clock and the notes for pobs.  Results are
\* PR(ret, s).
PR(ret, s) == [ret |-> ret, s |-> s]

\* a call that fails notes which one it was, and during which signal
Hit(s, what) == [s EXCEPT !.g.hit = what, !.g.hit_at = Len(s.g.tr) + 1]

IntVars == {"WDT_COUNTER", "WDT_TIME_REF", "WDT_COUNTER_MAX"}
Absent(name) == IF name \in IntVars THEN -1 ELSE ""

\* del_efi_variable: callers in the policy ignore what it returns
del_efi_variable(s, name) == [s EXCEPT !.v[name] = Absent(name)]

\* gnu-efi SetVariable on a variable of the watchdog
set_policy_variable(s, name, value) ==
    IF s.h.fail = "set_watchdog" THEN PR("EFI_DEVICE_ERROR", Hit(s, "set_watchdog"))
    ELSE PR("EFI_SUCCESS", [s EXCEPT !.v[name] = value])

\* ----------------------------------------------------- vars.c: the accessors
get_current_boolean_var(s, varname, var, default_value) ==
    IF s.c[var].is_cached THEN PR(s.c[var].value, s)
    ELSE IF s.h.fail = varname
    THEN PR(default_value,
            Hit([s EXCEPT !.c[var] = [is_cached |-> TRUE, value |-> default_value]],
                varname))
    ELSE LET value == IF s.v[varname] \in {"0", "1"} THEN s.v[varname] = "1"
                      ELSE default_value
         IN PR(value, [s EXCEPT !.c[var] = [is_cached |-> TRUE, value |-> value]])

get_off_mode_charge(s) ==
    get_current_boolean_var(s, "OFF_MODE_CHARGE", "off_mode_charge", TRUE)

get_crash_event_menu(s) ==
    get_current_boolean_var(s, "CRASH_EVENT_MENU", "crash_event_menu", TRUE)

\* ret is [ret, counter, time]
get_watchdog_status(s) ==
    IF s.h.fail = "WDT_COUNTER"
    THEN PR([ret |-> "EFI_DEVICE_ERROR", counter |-> 0, time |-> 0],
            Hit(s, "WDT_COUNTER"))
    ELSE IF s.v.WDT_COUNTER = -1
    THEN PR([ret |-> "EFI_SUCCESS", counter |-> 0, time |-> 0], s)
    ELSE IF s.h.fail = "WDT_TIME_REF"
    THEN PR([ret |-> "EFI_DEVICE_ERROR", counter |-> s.v.WDT_COUNTER, time |-> 0],
            Hit(s, "WDT_TIME_REF"))
    ELSE IF s.v.WDT_TIME_REF = -1
    THEN PR([ret |-> "EFI_NOT_FOUND", counter |-> s.v.WDT_COUNTER, time |-> 0], s)
    ELSE PR([ret |-> "EFI_SUCCESS", counter |-> s.v.WDT_COUNTER,
             time |-> s.v.WDT_TIME_REF], s)

set_watchdog_counter(s, counter) ==
    set_policy_variable(s, "WDT_COUNTER", IF counter = 0 THEN -1 ELSE counter)

\* the time reference kept as it is
set_watchdog_time_reference_kept(s, time) == PR("EFI_SUCCESS", s)

\* time = -1 is the NULL pointer
set_watchdog_time_reference(s, time) ==
    set_policy_variable(s, "WDT_TIME_REF", time)

reset_watchdog_status(s) ==
    With(set_watchdog_counter(s, 0), LAMBDA r :
        IF EFI_ERROR(r.ret) THEN r ELSE set_watchdog_time_reference(r.s, -1))

\* the maximum of a USER build on every build
get_watchdog_counter_max_fixed(s) == PR(WATCHDOG_COUNTER_MAX, s)

get_watchdog_counter_max(s) ==
    IF s.e.USER THEN PR(WATCHDOG_COUNTER_MAX, s)
    ELSE IF s.h.fail = "WDT_COUNTER_MAX"
    THEN PR(WATCHDOG_COUNTER_MAX, Hit(s, "WDT_COUNTER_MAX"))
    ELSE IF s.v.WDT_COUNTER_MAX = -1 THEN PR(WATCHDOG_COUNTER_MAX, s)
    ELSE PR(s.v.WDT_COUNTER_MAX, s)

\* ret is the string, "" for NULL
get_reboot_reason(s) ==
    IF s.c.reboot_reason # "" THEN PR(s.c.reboot_reason, s)
    ELSE IF s.h.fail = "REBOOT_REASON" THEN PR("", Hit(s, "REBOOT_REASON"))
    ELSE PR(s.v.REBOOT_REASON, [s EXCEPT !.c.reboot_reason = s.v.REBOOT_REASON])

set_reboot_reason(s, reboot_reason) ==
    IF reboot_reason = "" THEN PR("EFI_INVALID_PARAMETER", s)
    ELSE PR("EFI_SUCCESS", [s EXCEPT !.v.REBOOT_REASON = reboot_reason])

\* StrStr on the reasons of Reasons, none of which holds another
is_reboot_reason(s, reason) ==
    With(get_reboot_reason(s), LAMBDA r : PR(r.ret # "" /\ r.ret = reason, r.s))

del_reboot_reason(s) == del_efi_variable(s, "REBOOT_REASON")

\* ------------------------------------------ what is not under src/ (spec 4.1)
\* the target a name stands for
name_to_boot_target(name) ==
    IF name = "recovery" THEN "RECOVERY"
    ELSE IF name \in {"fastboot", "bootloader"} THEN "FASTBOOT"
    ELSE IF name = "charging" THEN "CHARGER"
    ELSE IF name = "dnx" THEN "DNX"
    ELSE IF name = "crashmode" THEN "CRASHMODE"
    ELSE "UNKNOWN_TARGET"

\* UserPrompt::choose_crash_target: the user answers Fastboot or NormalBoot
PromptTargets == {"NORMAL_BOOT", "FASTBOOT"}

ux_prompt_user_for_boot_target(s) ==
    PR(s.h.prompt, [s EXCEPT !.g.prompted = @ + 1])

\* ------------------------------------------------ kernelflinger.c: the signals
\* the sentinel file not looked at
check_fastboot_sentinel_ignored(s) == PR("NORMAL_BOOT", s)

check_fastboot_sentinel(s) ==
    PR(IF s.h.sentinel THEN "FASTBOOT" ELSE "NORMAL_BOOT", s)

\* key: "none" (ReadKeyStroke found nothing), "other" (not MAGIC_KEY), "tap"
\* (MAGIC_KEY released before FASTBOOT_HOLD_DELAY) or "held"
check_magic_key(s) ==
    PR(IF s.h.key = "held" THEN "FASTBOOT" ELSE "NORMAL_BOOT", s)

Paths == {"\\a.efi", "\\a.img", "\\a"}
StrLen(path) == IF path = "\\a" THEN 2 ELSE 6
Extension(path) == IF path = "\\a.efi" THEN ".efi"
                   ELSE IF path = "\\a.img" THEN ".img" ELSE ""

\* check_bcb from "if (!target)" on; target = "" is NULL
bcb_target(target, file_exists) ==
    IF target = "" THEN "NORMAL_BOOT"
    ELSE IF target \in Paths
    THEN IF ~file_exists THEN "NORMAL_BOOT"
         ELSE IF StrLen(target) > 4
         THEN IF Extension(target) \in {".efi", ".EFI"} THEN "ESP_EFI_BINARY"
              ELSE "ESP_BOOTIMAGE"
         ELSE "NORMAL_BOOT"
    ELSE IF name_to_boot_target(target) # "UNKNOWN_TARGET"
    THEN name_to_boot_target(target)
    ELSE "NORMAL_BOOT"

\* the message not written back
write_bcb_dropped(s, bcb) == PR("EFI_SUCCESS", s)

write_bcb(s, bcb) ==
    IF s.h.fail = "write_bcb" THEN PR("EFI_DEVICE_ERROR", Hit(s, "write_bcb"))
    ELSE PR("EFI_SUCCESS", [s EXCEPT !.m = bcb])

\* check_bcb once read_bcb has returned the message; ret is
\* [t, oneshot, target_path]
check_bcb_message(s) ==
    LET cmd == s.m.command
        once == cmd.prefix = "bootonce-"
        target == IF cmd.prefix \in {"boot-", "bootonce-"} THEN cmd.target ELSE ""
        dirty == s.m.status # "" \/ once
        bcb == [command |-> IF once THEN EmptyCommand ELSE cmd, status |-> ""]
        t == bcb_target(target, s.h.file)
    IN PR([t |-> t, oneshot |-> once,
           target_path |-> IF t \in {"ESP_EFI_BINARY", "ESP_BOOTIMAGE"}
                           THEN target ELSE ""],
          IF dirty THEN write_bcb(s, bcb).s ELSE s)

\* check_bcb going on with the message although read_bcb failed
check_bcb_unchecked(s) ==
    IF s.h.fail = "read_bcb" THEN check_bcb_message(Hit(s, "read_bcb"))
    ELSE check_bcb_message(s)

check_bcb(s) ==
    IF s.h.fail = "read_bcb"
    THEN PR([t |-> "NORMAL_BOOT", oneshot |-> FALSE, target_path |-> ""],
            Hit(s, "read_bcb"))
    ELSE check_bcb_message(s)

check_loader_entry_one_shot(s) ==
    LET failed == s.h.fail = "LOADER_ENTRY_ONESHOT"
        target == IF failed THEN "" ELSE s.v.LOADER_ENTRY_ONESHOT
        s1 == del_efi_variable(IF failed THEN Hit(s, "LOADER_ENTRY_ONESHOT") ELSE s,
                               "LOADER_ENTRY_ONESHOT")
        bt == name_to_boot_target(target)
    IN IF target = "" THEN PR("NORMAL_BOOT", s1)
       ELSE IF bt = "UNKNOWN_TARGET"
       THEN PR("NORMAL_BOOT",
               IF target = "dm-verity device corrupted"
               THEN [s1 EXCEPT !.g.verity = TRUE] ELSE s1)
       ELSE IF bt = "CHARGER"
       THEN With(get_off_mode_charge(s1), LAMBDA omc :
                PR(IF omc.ret THEN "CHARGER" ELSE "POWER_OFF", omc.s))
       ELSE PR(bt, s1)

WATCHDOG_RESET_SOURCES == {"RESET_KERNEL_WATCHDOG", "RESET_SECURITY_WATCHDOG",
                           "RESET_PMIC_WATCHDOG", "RESET_EC_WATCHDOG"}

reset_is_due_to_watchdog_or_panic(s) ==
    IF s.h.reset_source \in WATCHDOG_RESET_SOURCES THEN PR(TRUE, s)
    ELSE With(is_reboot_reason(s, "kernel_panic"), LAMBDA panic :
             IF panic.ret THEN panic ELSE is_reboot_reason(panic.s, "watchdog"))

\* check_watchdog from reset_watchdog_status() to the prompt
watchdog_crash_event(s) ==
    With(reset_watchdog_status(s), LAMBDA r :
        IF r.s.e.USE_UI
        THEN ux_prompt_user_for_boot_target([r.s EXCEPT !.g.crash_event = TRUE])
        ELSE PR("NORMAL_BOOT", [r.s EXCEPT !.g.crash_event = TRUE]))

\* check_watchdog from GetTime on; counter is a UINT8
watchdog_count(s, counter, time_ref) ==
    IF s.h.fail = "GetTime" THEN PR("NORMAL_BOOT", Hit(s, "GetTime"))
    ELSE LET late == counter > 0 /\ (s.now < time_ref
                                     \/ s.now - time_ref > WATCHDOG_DELAY)
             c0 == IF late THEN 0 ELSE counter
             next(r) ==
                 IF EFI_ERROR(r.ret) THEN PR("NORMAL_BOOT", r.s)
                 ELSE With(get_watchdog_counter_max(r.s), LAMBDA max :
                     IF (c0 + 1) % 256 <= max.ret
                     THEN PR("NORMAL_BOOT",
                             set_watchdog_counter(
                                 [max.s EXCEPT !.g.wd =
                                     [counted |-> TRUE, late |-> late,
                                      c0 |-> counter, max |-> max.ret]],
                                 (c0 + 1) % 256).s)
                     ELSE watchdog_crash_event(
                              [max.s EXCEPT !.g.wd =
                                  [counted |-> TRUE, late |-> late,
                                   c0 |-> counter, max |-> max.ret]]))
         IN next(IF c0 = 0 THEN set_watchdog_time_reference(s, s.now)
                 ELSE PR("EFI_SUCCESS", s))

check_watchdog(s) ==
    With(get_crash_event_menu(s), LAMBDA menu :
    IF ~menu.ret THEN PR("NORMAL_BOOT", menu.s)
    ELSE With(get_watchdog_status(menu.s), LAMBDA st :
    IF EFI_ERROR(st.ret.ret) THEN PR("NORMAL_BOOT", st.s)
    ELSE With(reset_is_due_to_watchdog_or_panic(st.s), LAMBDA due :
    IF ~due.ret
    THEN PR("NORMAL_BOOT",
            IF st.ret.counter # 0 THEN reset_watchdog_status(due.s).s ELSE due.s)
    ELSE With(IF due.s.e.USER THEN is_reboot_reason(due.s, "shutdown")
              ELSE PR(FALSE, due.s), LAMBDA shutdown :
    IF shutdown.ret THEN PR("POWER_OFF", del_reboot_reason(shutdown.s))
    ELSE watchdog_count(shutdown.s, st.ret.counter, st.ret.time)))))

\* argv is a sequence of [name, value]; the loop of the UEFI command line
RECURSIVE scan_arguments(_, _, _, _)
scan_arguments(argv, pos, bt, USER) ==
    IF pos > Len(argv) THEN bt
    ELSE IF argv[pos].name = "-f" THEN scan_arguments(argv, pos + 1, "FASTBOOT", USER)
    ELSE IF ~USER /\ argv[pos].name = "-U" THEN "EXIT_SHELL"
    ELSE IF argv[pos].name = "-a"
    THEN IF pos + 1 > Len(argv) THEN bt
         ELSE scan_arguments(argv, pos + 2, "FASTBOOT", USER)
    ELSE IF pos = 1 THEN scan_arguments(argv, pos + 1, bt, USER)
    ELSE bt

\* the loop of the SBL command line: "reset=", "boot_target=", "fw.boot="
RECURSIVE sbl_arguments(_, _, _)
sbl_arguments(s, i, target) ==
    IF i > Len(s.h.argv) THEN PR(target, s)
    ELSE IF s.h.argv[i].name = "reset="
    THEN sbl_arguments(set_reboot_reason(s, s.h.argv[i].value).s, i + 1, target)
    ELSE IF s.h.argv[i].name = "boot_target="
    THEN IF s.h.argv[i].value = "CRASHMODE" THEN PR("CRASHMODE", s)
         ELSE sbl_arguments(s, i + 1, target)
    ELSE IF s.h.argv[i].name = "fw.boot="
    THEN sbl_arguments(s, i + 1, s.h.argv[i].value)
    ELSE sbl_arguments(s, i + 1, target)

check_command_line(s) ==
    IF s.e.USE_SBL
    THEN IF s.h.fail = "get_argv" THEN PR("FASTBOOT", Hit(s, "get_argv"))
         ELSE sbl_arguments(s, 1, "NORMAL_BOOT")
    ELSE IF s.h.fail = "get_argv" THEN PR("NORMAL_BOOT", Hit(s, "get_argv"))
         ELSE PR(scan_arguments(s.h.argv, 1, "NORMAL_BOOT", s.e.USER), s)

\* power off on battery insertion when off-mode charge is disabled
check_battery_inserted_disabled(s) ==
    With(get_off_mode_charge(s), LAMBDA omc :
        IF omc.ret THEN PR("NORMAL_BOOT", omc.s)
        ELSE IF omc.s.h.wake_source = "WAKE_BATTERY_INSERTED"
        THEN PR("POWER_OFF", omc.s)
        ELSE PR("NORMAL_BOOT", omc.s))

check_battery_inserted(s) ==
    With(get_off_mode_charge(s), LAMBDA omc :
        IF ~omc.ret THEN PR("NORMAL_BOOT", omc.s)
        ELSE IF omc.s.h.wake_source = "WAKE_BATTERY_INSERTED"
        THEN PR("POWER_OFF", omc.s)
        ELSE PR("NORMAL_BOOT", omc.s))

\* charge mode on a charger wake, whatever OFF_MODE_CHARGE says
check_charge_mode_always(s) ==
    IF s.h.wake_source \in {"WAKE_USB_CHARGER_INSERTED", "WAKE_ACDC_CHARGER_INSERTED"}
    THEN PR("CHARGER", s)
    ELSE PR("NORMAL_BOOT", s)

check_charge_mode(s) ==
    With(get_off_mode_charge(s), LAMBDA omc :
        IF ~omc.ret THEN PR("NORMAL_BOOT", omc.s)
        ELSE IF omc.s.h.wake_source \in {"WAKE_USB_CHARGER_INSERTED",
                                          "WAKE_ACDC_CHARGER_INSERTED"}
        THEN PR("CHARGER", omc.s)
        ELSE PR("NORMAL_BOOT", omc.s))

\* the battery level looked at whatever OFF_MODE_CHARGE says
check_battery_always(s) ==
    IF s.h.battery = "plugged" THEN PR("CHARGER", s)
    ELSE IF s.h.battery = "unplugged" THEN PR("POWER_OFF", s)
    ELSE PR("NORMAL_BOOT", s)

\* battery: "ok", or below the boot OS threshold with the charger "plugged"
\* or "unplugged"
check_battery(s) ==
    With(get_off_mode_charge(s), LAMBDA omc :
        IF ~omc.ret THEN PR("NORMAL_BOOT", omc.s)
        ELSE IF omc.s.h.battery = "plugged" THEN PR("CHARGER", omc.s)
        ELSE IF omc.s.h.battery = "unplugged" THEN PR("POWER_OFF", omc.s)
        ELSE PR("NORMAL_BOOT", omc.s))

\* ------------------------------------- kernelflinger.c: choose_boot_target
Seen(s, sig, ret) == [s EXCEPT !.g.tr = Append(@, [sig |-> sig, ret |-> ret])]

\* "ret = check(); if (ret != NORMAL_BOOT) goto out;" and then the rest
Decide(sig, r, rest(_)) ==
    IF r.ret # "NORMAL_BOOT" THEN PR(r.ret, Seen(r.s, sig, r.ret))
    ELSE rest(Seen(r.s, sig, r.ret))

\* choose_boot_target from "Check reboot target" on
choose_by_one_shot(s) ==
    With(check_loader_entry_one_shot(s), LAMBDA r :
    IF r.ret # "DNX" /\ r.ret # "NORMAL_BOOT"
    THEN PR(r.ret, Seen(r.s, "loader_entry_one_shot", r.ret))
    ELSE IF r.s.e.USE_SBL
    THEN PR(r.ret, Seen(r.s, "loader_entry_one_shot", r.ret))
    ELSE Decide("battery", check_battery(Seen(r.s, "loader_entry_one_shot", r.ret)),
                LAMBDA s2 : With(check_charge_mode(s2), LAMBDA c :
                    PR(c.ret, Seen(c.s, "charge_mode", c.ret)))))

\* the BCB's target taken as it is
choose_by_bcb_verbatim(s) ==
    With(check_bcb(s), LAMBDA r :
    IF r.ret.t # "NORMAL_BOOT"
    THEN IF r.ret.oneshot
         THEN PR(r.ret.t, del_efi_variable(Seen(r.s, "bcb", r.ret.t),
                                           "LOADER_ENTRY_ONESHOT"))
         ELSE PR(r.ret.t, Seen(r.s, "bcb", r.ret.t))
    ELSE choose_by_one_shot(Seen(r.s, "bcb", r.ret.t)))

\* choose_boot_target from "Check BCB" on
choose_by_bcb(s) ==
    With(check_bcb(s), LAMBDA r :
    IF r.ret.t # "NORMAL_BOOT"
    THEN IF r.ret.oneshot
         THEN PR(r.ret.t, del_efi_variable(Seen(r.s, "bcb", r.ret.t),
                                           "LOADER_ENTRY_ONESHOT"))
         ELSE PR(IF r.ret.t = "FASTBOOT" THEN "RECOVERY" ELSE r.ret.t,
                 Seen(r.s, "bcb", r.ret.t))
    ELSE choose_by_one_shot(Seen(r.s, "bcb", r.ret.t)))

\* choose_boot_target from "Check battery insertion" on
choose_by_battery_inserted(s) ==
    IF s.e.USE_SBL THEN choose_by_bcb(s)
    ELSE Decide("battery_inserted", check_battery_inserted(s), choose_by_bcb)

choose_boot_target(s) ==
    Decide("command_line", check_command_line(s), LAMBDA s1 :
    Decide("fastboot_sentinel", check_fastboot_sentinel(s1), LAMBDA s2 :
    Decide("magic_key", check_magic_key(s2), LAMBDA s3 :
    Decide("watchdog", check_watchdog(s3), choose_by_battery_inserted))))

\* --------------------------------------------- kernelflinger.c: efi_main
\* set_device_security_info to choose_boot_target; chosen: the policy ran
efi_main_choose(s) ==
    IF EFI_ERROR(s.h.security) THEN [ret |-> "FASTBOOT", s |-> s, chosen |-> FALSE]
    ELSE With(choose_boot_target(s), LAMBDA r :
             [ret |-> r.ret, s |-> r.s, chosen |-> TRUE])

\* efi_main going on with whatever was chosen
efi_main_crashmode_skipped(s, target) == [ret |-> target, s |-> s, next |-> "go"]

\* EXIT_SHELL and CRASHMODE; next is "exit" (efi_main returns), "reset"
\* (reboot_to_target) or "go"
efi_main_crashmode(s, target) ==
    IF target = "EXIT_SHELL" THEN [ret |-> target, s |-> s, next |-> "exit"]
    ELSE IF target = "CRASHMODE"
    THEN IF s.e.USE_UI
         THEN With(ux_prompt_user_for_boot_target(s), LAMBDA a :
                  [ret |-> a.ret, s |-> a.s,
                   next |-> IF a.ret # "FASTBOOT" THEN "reset" ELSE "go"])
         ELSE [ret |-> "FASTBOOT", s |-> s, next |-> "reset"]
    ELSE [ret |-> target, s |-> s, next |-> "go"]

\* from "if (boot_target == POWER_OFF)" to the entry of fastboot mode
efi_main_act(target) ==
    IF target = "POWER_OFF" THEN "halt"
    ELSE IF target \in {"DNX", "CRASHMODE"} THEN "reset"
    ELSE IF target = "ESP_EFI_BINARY" THEN "binary"
    ELSE IF target = "FASTBOOT" THEN "fastboot"
    ELSE "boot"

\* ------------------------------------------------ boot policy: the harness
Arg(name, value) == [name |-> name, value |-> value]

\* command lines of the UEFI build and of the SBL build
EfiArgvs == {<<Arg("-f", "")>>, <<Arg("kf.efi", ""), Arg("-f", "")>>,
             <<Arg("kf.efi", ""), Arg("-a", "")>>,
             <<Arg("kf.efi", ""), Arg("-a", "0x1000")>>,
             <<Arg("kf.efi", ""), Arg("-U", "")>>,
             <<Arg("kf.efi", ""), Arg("x", ""), Arg("-f", "")>>}
SblArgvs == {<<Arg("boot_target=", "CRASHMODE")>>, <<Arg("fw.boot=", "RECOVERY")>>,
             <<Arg("reset=", "kernel_panic")>>,
             <<Arg("fw.boot=", "FASTBOOT"), Arg("boot_target=", "CRASHMODE")>>}

Reasons == {"", "kernel_panic", "shutdown"}
OneShots == {"", "recovery", "dnx", "charging", "dm-verity device corrupted"}
Commands == {EmptyCommand,
             [prefix |-> "boot-", target |-> "recovery"],
             [prefix |-> "boot-", target |-> "fastboot"],
             [prefix |-> "bootonce-", target |-> "recovery"],
             [prefix |-> "bootonce-", target |-> "\\a.efi"],
             [prefix |-> "boot-", target |-> "zzz"]}
Failures == {"none", "get_argv", "read_bcb", "write_bcb", "GetTime",
             "set_watchdog", "WDT_COUNTER", "WDT_TIME_REF", "WDT_COUNTER_MAX",
             "LOADER_ENTRY_ONESHOT", "REBOOT_REASON", "OFF_MODE_CHARGE",
             "CRASH_EVENT_MENU"}

\* what each signal of a boot can be
HwDomain == [argv |-> EfiArgvs \cup SblArgvs \cup {<<>>},
             sentinel |-> BOOLEAN,
             key |-> {"none", "tap", "held"},
             reset_source |-> {"RESET_NOT_APPLICABLE", "RESET_KERNEL_WATCHDOG"},
             wake_source |-> {"WAKE_POWER_BUTTON_PRESSED", "WAKE_BATTERY_INSERTED",
                              "WAKE_USB_CHARGER_INSERTED",
                              "WAKE_ACDC_CHARGER_INSERTED"},
             battery |-> {"ok", "plugged", "unplugged"},
             file |-> BOOLEAN,
             prompt |-> PromptTargets,
             fail |-> Failures,
             security |-> {"EFI_SUCCESS", "EFI_DEVICE_ERROR"},
             ivshmem |-> {"EFI_SUCCESS", "EFI_NOT_FOUND", "EFI_DEVICE_ERROR"},
             tpm |-> {"EFI_SUCCESS", "EFI_NOT_FOUND", "EFI_DEVICE_ERROR"}]

\* the persisted values and the build a boot can start with
QuietWorld == [build |-> "userdebug", USE_SBL |-> FALSE, USE_UI |-> TRUE,
               tee |-> FALSE, wdt |-> <<-1, -1>>, max |-> -1, oneshot |-> "",
               reason |-> "", omc |-> "", cem |-> "", command |-> EmptyCommand,
               status |-> "", rtc |-> 0]

WorldDomain == [build |-> {"userdebug", "user"}, USE_SBL |-> BOOLEAN,
                USE_UI |-> BOOLEAN, tee |-> BOOLEAN,
                wdt |-> {<<-1, -1>>, <<1, -1>>}
                        \cup ({1, 2, 255} \X Times),
                max |-> {-1, 1, 255}, oneshot |-> OneShots, reason |-> Reasons,
                omc |-> {"", "0"}, cem |-> {"", "0"}, command |-> Commands,
                status |-> {"", "x"}, rtc |-> Times]

\* one field set to something else than the quiet value
Deviations(quiet, domain) ==
    UNION {{<<f, x>> : x \in domain[f] \ {quiet[f]}} : f \in DOMAIN quiet}

\* the records that differ from quiet in at most k fields
RECURSIVE Within(_, _, _)
Within(quiet, domain, k) ==
    IF k <= 0 THEN {quiet}
    ELSE LET less == Within(quiet, domain, k - 1)
         IN less \cup {[x EXCEPT ![d[1]] = d[2]] :
                          x \in less, d \in Deviations(quiet, domain)}

Active(quiet, x) == Cardinality({f \in DOMAIN quiet : x[f] # quiet[f]})

World == [build |-> build, USE_SBL |-> cfg.USE_SBL, USE_UI |-> cfg.USE_UI,
          tee |-> tee_tpm, wdt |-> <<efivars.WDT_COUNTER, efivars.WDT_TIME_REF>>,
          max |-> efivars.WDT_COUNTER_MAX, oneshot |-> efivars.LOADER_ENTRY_ONESHOT,
          reason |-> efivars.REBOOT_REASON, omc |-> efivars.OFF_MODE_CHARGE,
          cem |-> efivars.CRASH_EVENT_MENU, command |-> misc.command,
          status |-> misc.status, rtc |-> rtc]

SignalsUpTo == [k \in 0 .. MaxActive |-> Within(QuietHw, HwDomain, k)]
\* the signals of a boot from the world of this state
Signals ==
    IF pc = "p_drawn" /\ Active(QuietWorld, World) <= MaxActive
    THEN SignalsUpTo[MaxActive - Active(QuietWorld, World)]
    ELSE {}
Worlds == Within(QuietWorld, WorldDomain, MaxActive)
\* the signals of the boots of a row
RowSignals == {QuietHw, [QuietHw EXCEPT !.key = "held"],
               [QuietHw EXCEPT !.prompt = "FASTBOOT"],
               [QuietHw EXCEPT !.reset_source = "RESET_KERNEL_WATCHDOG"],
               [QuietHw EXCEPT !.reset_source = "RESET_KERNEL_WATCHDOG",
                               !.prompt = "FASTBOOT"],
               [QuietHw EXCEPT !.wake_source = "WAKE_USB_CHARGER_INSERTED"]}

FreshPlat == [nv |-> [i \in Idx |-> FreshIndex], lock_state |-> 0,
              rollback |-> ZeroRollback, oemlock |-> AbsentVar,
              efi_rb |-> [s \in CallSlots |-> -1], owner |-> FALSE, optee_seed |-> FALSE, made |-> FALSE, tick |-> 0,
              fault |-> NoFault]

\* the loader starts on world w
Started(w) ==
    /\ plat = FreshPlat
    /\ tee_tpm = w.tee
    /\ andr_tpm = TRUE
    /\ secure_boot = FALSE
    /\ g_ivshmem_rot_addr = 0
    /\ seed_ok = 0
    /\ seed_ok_index = 0
    /\ last = NoOp
    /\ build = w.build
    /\ live_boot = FALSE
    /\ vstate = InitVars
    /\ boot_target = "NORMAL_BOOT"
    /\ boot_state = "GREEN"
    /\ obs = NoObs
    /\ efivars = [WDT_COUNTER |-> w.wdt[1], WDT_TIME_REF |-> w.wdt[2],
                  WDT_COUNTER_MAX |-> w.max, LOADER_ENTRY_ONESHOT |-> w.oneshot,
                  REBOOT_REASON |-> w.reason, OFF_MODE_CHARGE |-> w.omc,
                  CRASH_EVENT_MENU |-> w.cem]
    /\ misc = [command |-> w.command, status |-> w.status]
    /\ cache = ColdCache
    /\ rtc = w.rtc
    /\ cfg = [USE_SBL |-> w.USE_SBL, USE_UI |-> w.USE_UI]
    /\ pobs = NoPobs
    /\ run = NoRun

\* one boot, from any world
InitPolicy ==
    /\ pc = "p_drawn"
    /\ StepIdle
    /\ \E w \in Worlds : Started(w)

\* boots in a row, from a device nothing was written to
InitRow ==
    /\ pc = "p_start"
    /\ StepIdle
    /\ \E b \in {"userdebug", "user"}, m \in {-1, 1} :
           Started([QuietWorld EXCEPT !.build = b, !.max = m])

NoNotes == [tr |-> <<>>, hit |-> "none", hit_at |-> 0, crash_event |-> FALSE, prompted |-> 0,
            verity |-> FALSE, wd |-> NoWd]

\* the policy state of a boot with signals h on variables v, BCB m and
\* statics c
PolicyAt(h, v, m, c) ==
    [v |-> v, m |-> m, c |-> c, h |-> h,
     e |-> [USER |-> build = "user", USE_SBL |-> cfg.USE_SBL,
            USE_UI |-> cfg.USE_UI],
     now |-> rtc, g |-> NoNotes]

PolicyState(h, c) == PolicyAt(h, efivars, misc, c)

\* efi_main from set_device_security_info to what it goes on with
efi_main_target(s, tee, andr, live) ==
    With(efi_main_choose(s), LAMBDA a :
    With(efi_main_crashmode(a.s, a.ret), LAMBDA b :
        [chosen |-> a.chosen, target |-> a.ret, decided |-> b.ret,
         next |-> b.next, s |-> b.s,
         acted |-> IF b.next = "go"
                   THEN efi_main_init(b.ret, tee, andr, live, s.h.ivshmem, s.h.tpm)
                   ELSE b.ret]))

\* the reset of this boot was caused by a watchdog or a panic
WatchdogBoot(h, v) ==
    \/ h.reset_source \in WATCHDOG_RESET_SOURCES
    \/ v.REBOOT_REASON \in {"kernel_panic", "watchdog"}

\* the run after a boot at time now with signals h on variables v; counted:
\* check_watchdog counted the boot
NextRun(r, h, v, now, counted, crash_event) ==
    IF ~WatchdogBoot(h, v) THEN [NoRun EXCEPT !.boots = r.boots + 1]
    ELSE IF r.n > 0 /\ r.prompts = 0 /\ now >= r.start
                    /\ now - r.start <= WATCHDOG_DELAY
    THEN [n |-> r.n + 1, start |-> r.start,
          prompts |-> IF crash_event THEN 1 ELSE 0,
          clean |-> r.clean /\ counted, boots |-> r.boots + 1]
    ELSE [n |-> 1, start |-> now, prompts |-> IF crash_event THEN 1 ELSE 0,
          clean |-> counted /\ (v.WDT_COUNTER = -1 \/ (r.n > 0 /\ r.clean)),
          boots |-> r.boots + 1]

\* efi_main up to where it acts on boot_target
P_Main(h) ==
    /\ pc \in {"p_start", "p_drawn"}
    /\ LET did(x) ==
           /\ efivars' = x.s.v
           /\ misc' = x.s.m
           /\ cache' = x.s.c
           /\ boot_target' = x.acted
           /\ pobs' = [h |-> h, v0 |-> efivars, m0 |-> misc, tr |-> x.s.g.tr,
                       hit |-> x.s.g.hit, hit_at |-> x.s.g.hit_at,
                       target |-> IF x.chosen THEN x.target ELSE "none",
                       decided |-> x.decided, next |-> x.next,
                       acted |-> x.acted,
                       how |-> IF x.next = "go" THEN efi_main_act(x.acted)
                               ELSE x.next,
                       prompted |-> x.s.g.prompted,
                       crash_event |-> x.s.g.crash_event, wd |-> x.s.g.wd,
                       verity |-> x.s.g.verity]
           /\ run' = NextRun(run, h, efivars, rtc, x.s.g.wd.counted,
                             x.s.g.crash_event)
       IN did(efi_main_target(PolicyState(h, cache), tee_tpm, andr_tpm, live_boot))
    /\ pc' = "p_done"
    /\ UNCHANGED <<plat, tee_tpm, andr_tpm, secure_boot, g_ivshmem_rot_addr,
                   seed_ok, seed_ok_index, last, build, live_boot, vstate,
                   boot_state, obs, rtc, cfg, stepVars>>

\* what is written between two boots: the OS or the user sets the BCB
\* command or the reboot reason
Writes == {<<"none", "">>, <<"command", EmptyCommand>>,
           <<"command", [prefix |-> "boot-", target |-> "recovery"]>>,
           <<"command", [prefix |-> "bootonce-", target |-> "recovery"]>>}
          \cup {<<"reason", r>> : r \in {"", "kernel_panic"}}

\* the system restarts with w written and the clock at now; c: the statics
\* the loader starts with
Restart(w, now, c) ==
    /\ pc = "p_done"
    /\ run.boots < MaxBoots
    /\ now >= rtc
    /\ efivars' = IF w[1] = "reason" THEN [efivars EXCEPT !.REBOOT_REASON = w[2]]
                  ELSE efivars
    /\ misc' = IF w[1] = "command" THEN [misc EXCEPT !.command = w[2]] ELSE misc
    /\ cache' = c
    /\ rtc' = now
    /\ boot_target' = "NORMAL_BOOT"
    /\ pobs' = NoPobs
    /\ pc' = "p_start"
    /\ UNCHANGED <<plat, tee_tpm, andr_tpm, secure_boot, g_ivshmem_rot_addr,
                   seed_ok, seed_ok_index, last, build, live_boot, vstate,
                   boot_state, obs, cfg, run, stepVars>>

\* a restart that keeps the statics of the boot before
P_Restart_warm(w, now) == Restart(w, now, cache)

\* the system restarts: the loader is loaded again, its statics are as
\* their initialisers say
P_Restart(w, now) == Restart(w, now, ColdCache)

NextPolicy == \E h \in Signals : P_Main(h)

SpecPolicy == InitPolicy /\ [][NextPolicy]_vars

NextRow ==
    \/ \E h \in RowSignals : P_Main(h)
    \/ \E w \in Writes, now \in Times : P_Restart(w, now)

SpecRow == InitRow /\ [][NextRow]_vars

\* ============================================================ the magic key
\* --------------------------------------- kernelflinger.c: check_magic_key
\* the window clamped to its upper limit
check_magic_key_wait_ms_clamped(var) ==
    IF EFI_ERROR(var.ret) THEN EFI_RESET_WAIT_MS
    ELSE IF var.value > 1000 THEN 1000
    ELSE var.value

\* wait_ms after get_efi_variable_long_from_str8(MAGIC_KEY_TIMEOUT_VAR): var
\* is what the call returned and stored; on an error wait_ms keeps its
\* initialiser
check_magic_key_wait_ms(var) ==
    IF EFI_ERROR(var.ret) THEN EFI_RESET_WAIT_MS
    ELSE IF var.value > 1000 THEN EFI_RESET_WAIT_MS
    ELSE var.value

\* ReadKeyStroke after the loop has stalled for so many milliseconds
ReadKeyStroke(k) ==
    IF k.press_at # -1 /\ k.stalled >= k.press_at THEN "EFI_SUCCESS"
    ELSE "EFI_NOT_READY"

\* check_magic_key after the loop: ui_keycode_to_event, and
\* ui_enforce_key_held over FASTBOOT_HOLD_DELAY
check_magic_key_target(k) ==
    IF EFI_ERROR(k.ret) THEN "NORMAL_BOOT"
    ELSE IF ~k.magic THEN "NORMAL_BOOT"
    ELSE IF k.held THEN "FASTBOOT"
    ELSE "NORMAL_BOOT"

\* what MagicKeyTimeout can hold, and how reading it can fail
KeyTimeouts ==
    [ret : {"EFI_SUCCESS"}, value : {0, 1, 3, 199, 200, 201, 1000, 1001, 4000}]
    \cup [ret : {"EFI_NOT_FOUND", "EFI_DEVICE_ERROR"}, value : {0}]
\* when the user presses a key, in milliseconds after the loop began
KeyPresses == {-1, 0, 2, 200, 201, 1000, 1001}

\* what the stepped procedures leave alone
StepFrame == <<plat, tee_tpm, andr_tpm, secure_boot, g_ivshmem_rot_addr, seed_ok,
               seed_ok_index, last, bootVars, policyVars, life>>

KeyFrame == <<StepFrame, hj, tw, fn, ab>>

InitKey ==
    /\ pc = "key"
    /\ Started(QuietWorld)
    /\ hj = NoJump
    /\ tw = NoWait
    /\ life = NotAsked
    /\ fn = NoFn
    /\ ab = NoAb
    /\ \E var \in KeyTimeouts, at \in KeyPresses, magic \in BOOLEAN, held \in BOOLEAN :
           /\ at = -1 => ~magic
           /\ ~magic => ~held
           /\ key = [NoKey EXCEPT !.pc = "start", !.var = var, !.press_at = at,
                                  !.magic = magic, !.held = held]

\* check_magic_key up to the loop
K_Timeout ==
    /\ key.pc = "start"
    /\ key' = [key EXCEPT !.pc = "poll",
                          !.wait_ms = check_magic_key_wait_ms(key.var),
                          !.i = 0]
    /\ UNCHANGED KeyFrame

\* one turn of the loop: ReadKeyStroke, then leave or Stall for
\* DETECT_KEY_STALL_TIME_MS
K_Poll ==
    /\ key.pc = "poll"
    /\ key.i <= key.wait_ms
    /\ LET ret == ReadKeyStroke(key)
       IN key' = IF ret = "EFI_SUCCESS" \/ key.i = key.wait_ms
                 THEN [key EXCEPT !.pc = "polled", !.ret = ret, !.reads = @ + 1]
                 ELSE [key EXCEPT !.ret = ret, !.reads = @ + 1,
                                  !.stalled = @ + DETECT_KEY_STALL_TIME_MS,
                                  !.i = @ + DETECT_KEY_STALL_TIME_MS]
    /\ UNCHANGED KeyFrame

\* check_magic_key from "if (EFI_ERROR(ret))" to its return
K_Decide ==
    /\ key.pc = "polled"
    /\ key' = [key EXCEPT !.pc = "done", !.target = check_magic_key_target(key)]
    /\ UNCHANGED KeyFrame

NextKey == K_Timeout \/ K_Poll \/ K_Decide

SpecKey == InitKey /\ [][NextKey]_vars

\* ============================================================ the handover
\* android.c: handover_jump, "for (i = 0; i < 10; i++)"
EXIT_BOOT_SERVICES_TRIES == 10

\* one more entry in the trace of the handover; "alloc" and "free" are the
\* heap operations (AllocatePool / AllocatePages, FreePool / FreePages)
Did(h, e) == [h EXCEPT !.trace = Append(@, e)]

\* whether e is in the trace after the first occurrence of mark
RECURSIVE Later(_, _, _)
Later(trace, mark, e) ==
    IF trace = <<>> THEN FALSE
    ELSE IF Head(trace) = mark THEN \E k \in DOMAIN Tail(trace) : Tail(trace)[k] = e
    ELSE Later(Tail(trace), mark, e)

\* how often e is in the trace
Count(trace, e) == Cardinality({k \in DOMAIN trace : trace[k] = e})

\* android.c: setup_gdt.  gdt: "ok", or which of the two emalloc calls failed
setup_gdt(h, gdt) ==
    IF ~h.uefi THEN [h EXCEPT !.ret = "EFI_SUCCESS"]
    ELSE IF gdt = "first" THEN [h EXCEPT !.ret = "EFI_OUT_OF_RESOURCES"]
    ELSE IF gdt = "second"
    THEN [Did(h, "alloc") EXCEPT !.ret = "EFI_OUT_OF_RESOURCES"]
    ELSE [Did(Did(h, "alloc"), "alloc") EXCEPT !.ret = "EFI_SUCCESS"]

\* setup_memory_map releasing the map buffer on every host once the E820
\* table is made
setup_memory_map_release(h, lib_ok, moved) ==
    LET h1 == IF h.efi_memmap THEN [Did(h, "free") EXCEPT !.fw = @ + 1] ELSE h
        h2 == [Did(Did(h1, "alloc"), "sample") EXCEPT
                  !.fw = @ + 1, !.map_key = h1.fw + 1, !.efi_memmap = h.uefi]
        h3 == [Did(h2, "free") EXCEPT !.fw = IF moved THEN @ + 1 ELSE @]
    IN IF ~lib_ok THEN [h1 EXCEPT !.ret = "EFI_OUT_OF_RESOURCES"]
       ELSE [h3 EXCEPT !.ret = "EFI_SUCCESS"]

\* android.c: setup_memory_map.  lib_ok: LibMemoryMap returned a map (it
\* allocates the buffer, then reads the map and its key into it); moved: a
\* release after the key was read changed the firmware's map
setup_memory_map(h, lib_ok, moved) ==
    LET \* "The previous memory map buffer must be freed."
        h1 == IF h.efi_memmap THEN [Did(h, "free") EXCEPT !.fw = @ + 1] ELSE h
        h2 == [Did(Did(h1, "alloc"), "sample") EXCEPT
                  !.fw = @ + 1, !.map_key = h1.fw + 1, !.efi_memmap = h.uefi]
        \* if (!is_UEFI()) FreePool(mem_entries);
        h3 == IF ~h.uefi
              THEN [Did(h2, "free") EXCEPT !.fw = IF moved THEN @ + 1 ELSE @]
              ELSE h2
    IN IF ~lib_ok THEN [h1 EXCEPT !.ret = "EFI_OUT_OF_RESOURCES"]
       ELSE [h3 EXCEPT !.ret = "EFI_SUCCESS"]

\* BS->ExitBootServices(image, map_key): the map key must be the key of the
\* map the firmware holds
ExitBootServices(fw, map_key) ==
    IF map_key = fw THEN "EFI_SUCCESS" ELSE "EFI_INVALID_PARAMETER"

\* the body of the loop of handover_jump after setup_memory_map succeeded,
\* leaving the loop one turn late
handover_jump_exit_eleven(h) ==
    LET ret == ExitBootServices(h.fw, h.map_key)
    IN IF ~EFI_ERROR(ret)
       THEN [Did(h, "exit_ok") EXCEPT !.ret = ret, !.pc = "boot"]
       ELSE [Did(h, "exit_fail") EXCEPT
                !.ret = ret, !.i = @ + 1,
                !.pc = IF h.i + 1 <= EXIT_BOOT_SERVICES_TRIES
                       THEN "map" ELSE "returned"]

\* the body of the loop of handover_jump after setup_memory_map succeeded:
\* ExitBootServices, "goto boot" or the delay, i++ and the test i < 10
handover_jump_exit(h) ==
    LET ret == ExitBootServices(h.fw, h.map_key)
    IN IF ~EFI_ERROR(ret)
       THEN [Did(h, "exit_ok") EXCEPT !.ret = ret, !.pc = "boot"]
       ELSE [Did(h, "exit_fail") EXCEPT
                !.ret = ret, !.i = @ + 1,
                !.pc = IF h.i + 1 < EXIT_BOOT_SERVICES_TRIES
                       THEN "map" ELSE "returned"]

\* the images efi_main hands to load_image
JumpTargets == {"NORMAL_BOOT", "CHARGER", "RECOVERY", "ESP_BOOTIMAGE"}

\* what the stepped handover leaves alone
JumpFrame == <<StepFrame, key, tw, fn, ab>>

InitHandover ==
    /\ pc = "load"
    /\ \E ui \in BOOLEAN : Started([QuietWorld EXCEPT !.USE_UI = ui])
    /\ key = NoKey
    /\ tw = NoWait
    /\ life = NotAsked
    /\ fn = NoFn
    /\ ab = NoAb
    /\ \E uefi \in BOOLEAN, target \in JumpTargets :
           hj = [NoJump EXCEPT !.pc = "start", !.uefi = uefi, !.target = target]

\* handover_jump up to the loop: ivshmem_detach, setup_gdt
H_Start(gdt) ==
    /\ hj.pc = "start"
    /\ ~hj.uefi => gdt = "ok"
    /\ LET h == setup_gdt(hj, gdt)
       IN hj' = IF EFI_ERROR(h.ret)
                THEN [Did(h, "print") EXCEPT !.pc = "returned"]
                ELSE [Did(h, "gdt") EXCEPT !.pc = "map", !.i = 0]
    /\ UNCHANGED JumpFrame

\* the loop of handover_jump: setup_memory_map and the test of its result
H_Map(lib_ok, moved) ==
    /\ hj.pc = "map"
    /\ hj.uefi \/ ~lib_ok => ~moved
    /\ LET h == setup_memory_map(hj, lib_ok, moved)
       IN hj' = IF EFI_ERROR(h.ret)
                THEN [Did(h, "print") EXCEPT !.pc = "returned"]
                ELSE [h EXCEPT !.pc = "exit"]
    /\ UNCHANGED JumpFrame

\* the firmware changes its memory map between the sample and the call
\* (a timer event of a driver allocates or releases)
H_Firmware ==
    /\ hj.pc = "exit"
    /\ hj.fw = hj.map_key
    /\ hj' = [hj EXCEPT !.fw = @ + 1]
    /\ UNCHANGED JumpFrame

\* the loop of handover_jump: ExitBootServices and what follows in the body
H_Exit ==
    /\ hj.pc = "exit"
    /\ hj' = handover_jump_exit(hj)
    /\ UNCHANGED JumpFrame

\* handover_jump from the label boot: lgdt, cli, jmp
H_Boot ==
    /\ hj.pc = "boot"
    /\ hj' = [Did(hj, "jump") EXCEPT !.pc = "kernel"]
    /\ UNCHANGED JumpFrame

\* handover_jump returned: handover_kernel reports and releases the kernel
\* and the boot parameters, load_image records the failure of the slot,
\* efi_main reboots into an active slot or goes on to bootloader_recover_mode
H_Return(active, in_boot) ==
    /\ hj.pc = "returned"
    /\ LET h1 == Did(Did(Did(hj, "print"), "free"), "free")
           h2 == Did(Did(h1, "print"), "slot_boot_failed")
           asks == \/ hj.target \in {"NORMAL_BOOT", "CHARGER"}
                   \/ hj.target = "RECOVERY" /\ in_boot
           h3 == IF asks THEN Did(h2, "slot_get_active") ELSE h2
       IN /\ ~asks => ~active
          /\ hj.target # "RECOVERY" => ~in_boot
          /\ hj' = IF asks /\ active
                   THEN [Did(h3, "reboot_to_target") EXCEPT !.pc = "reset"]
                   ELSE [h3 EXCEPT !.pc = "recover"]
    /\ UNCHANGED JumpFrame

\* kernelflinger.c: bootloader_recover_mode.  answer: what the user chose
\* at the prompt
H_Recover(answer) ==
    /\ hj.pc = "recover"
    /\ ~cfg.USE_UI => answer = "NORMAL_BOOT"
    /\ hj' = IF cfg.USE_UI
             THEN IF answer = "FASTBOOT"
                  THEN [Did(Did(hj, "prompt"), "enter_fastboot_mode") EXCEPT
                           !.pc = "fastboot", !.asked = TRUE]
                  ELSE [Did(Did(hj, "prompt"), "reboot_to_target") EXCEPT
                           !.pc = "reset", !.asked = TRUE]
             ELSE [Did(hj, "reboot_to_target") EXCEPT !.pc = "reset"]
    /\ UNCHANGED JumpFrame

NextHandover ==
    \/ \E gdt \in {"ok", "first", "second"} : H_Start(gdt)
    \/ \E lib_ok \in BOOLEAN, moved \in BOOLEAN : H_Map(lib_ok, moved)
    \/ H_Firmware
    \/ H_Exit
    \/ H_Boot
    \/ \E active \in BOOLEAN, in_boot \in BOOLEAN : H_Return(active, in_boot)
    \/ \E answer \in {"NORMAL_BOOT", "FASTBOOT", "POWER_OFF"} : H_Recover(answer)

SpecHandover == InitHandover /\ [][NextHandover]_vars

\* ======================================================= the wait for the TEE
\* ivshmem.c: #define NOT_READY_MAGIC 0x12ABCDEF
NOT_READY_MAGIC == 313249263

\* the commands tpm2_security.c forwards
TeeCommands == {"TEE_TPM2_INIT", "TEE_TPM2_END", "TEE_TPM2_READ_DEVICE_STATE",
                "TEE_TPM2_WRITE_DEVICE_STATE", "TEE_TPM2_READ_ROLLBACK_INDEX",
                "TEE_TPM2_WRITE_ROLLBACK_INDEX", "TEE_TPM2_BOOTLOADER_NEED_INIT"}

\* sizeof(struct tpm2_int_req) + req->size: within the page, and beyond it
ReqSizes == {16, 4097}

\* p_req points into memory the peer writes and is not volatile, so the
\* loop "while (NOT_READY_MAGIC == p_req->ret) {}" is translated in one of
\* three ways: the slot is read on every turn; it is read once and the loop
\* then runs on that value; or the loop, which has no side effect, is taken
\* to end and dropped
LoopBuilds == {"reread", "hoisted", "dropped"}

\* what the stepped wait leaves alone
WaitFrame == <<StepFrame, key, hj, fn, ab>>

InitTee ==
    /\ pc = "tee"
    /\ Started([QuietWorld EXCEPT !.tee = TRUE])
    /\ key = NoKey
    /\ hj = NoJump
    /\ life = NotAsked
    /\ fn = NoFn
    /\ ab = NoAb
    /\ \E cmd \in TeeCommands, rot \in {0, 1}, size \in ReqSizes, b \in LoopBuilds :
           tw = [NoWait EXCEPT !.pc = "start", !.cmd = cmd, !.rot_addr = rot,
                               !.req_size = size, !.build = b]

\* ivshmem_rollback_index_interrupt up to the loop: the two early returns,
\* req->ret = NOT_READY_MAGIC, the size test, memcpy to the slot, the doorbell
T_Call ==
    /\ tw.pc = "start"
    /\ tw' = IF tw.rot_addr = 0 THEN [tw EXCEPT !.pc = "done"]
             ELSE IF tw.req_size > 4096
             THEN [tw EXCEPT !.pc = "done", !.ret = NOT_READY_MAGIC]
             ELSE [tw EXCEPT !.pc = "wait", !.ret = NOT_READY_MAGIC,
                             !.slot = NOT_READY_MAGIC, !.forwarded = TRUE]
    /\ UNCHANGED WaitFrame

\* the peer serves the request and writes the reply, its ret field last
\* (EFI_SUCCESS, 0)
T_Peer ==
    /\ tw.forwarded
    /\ ~tw.answered
    /\ tw' = [tw EXCEPT !.slot = 0, !.answered = TRUE]
    /\ UNCHANGED WaitFrame

\* one test of "NOT_READY_MAGIC == p_req->ret"; when it fails, the memcpy
\* of the slot to the caller's request and the return
ivshmem_wait_turn(w) ==
    LET left(v) == [w EXCEPT !.pc = "done", !.seen = v, !.ret = w.slot]
        stay(v) == [w EXCEPT !.seen = v, !.turn = 1 - @]
    IN CASE w.build = "reread" ->
                IF w.slot = NOT_READY_MAGIC THEN stay(w.slot) ELSE left(w.slot)
         [] w.build = "hoisted" ->
                IF w.seen = -1
                THEN IF w.slot = NOT_READY_MAGIC THEN stay(w.slot) ELSE left(w.slot)
                ELSE stay(w.seen)
         [] w.build = "dropped" -> left(-1)

T_Spin ==
    /\ tw.pc = "wait"
    /\ tw' = ivshmem_wait_turn(tw)
    /\ UNCHANGED WaitFrame

NextTee == T_Call \/ T_Peer \/ T_Spin

SpecTee == InitTee /\ [][NextTee]_vars

\* the processor goes on executing the loop; nothing makes the peer answer
SpecTeeFair == SpecTee /\ WF_vars(T_Spin)

\* ===================================================== the lock state cache
\* what the lock state accessors leave alone
StateFrame == <<tee_tpm, andr_tpm, secure_boot, g_ivshmem_rot_addr, seed_ok,
                seed_ok_index, last, build, live_boot, pc, boot_target,
                boot_state, obs, policyVars, stepVars>>

\* a device before its first get_current_state: any backing but the remote
\* TEE, the record there or not, and a life cycle that does not change
InitState ==
    /\ plat \in InitPlat
    /\ tee_tpm = FALSE
    /\ andr_tpm \in BOOLEAN
    /\ andr_tpm => plat.oemlock = AbsentVar
    /\ ~andr_tpm => \A i \in Idx : plat.nv[i] = FreshIndex
    /\ secure_boot = TRUE
    /\ g_ivshmem_rot_addr = 0
    /\ seed_ok = 0
    /\ seed_ok_index = 0
    /\ last = NoOp
    /\ build \in {"user", "userdebug"}
    /\ live_boot \in BOOLEAN
    /\ pc = "state"
    /\ vstate = InitVars
    /\ boot_target = "NORMAL_BOOT"
    /\ boot_state = "GREEN"
    /\ obs = NoObs
    /\ PolicyIdle
    /\ key = NoKey
    /\ hj = NoJump
    /\ tw = NoWait
    /\ life \in LifeCycles
    /\ fn = NoFn
    /\ ab = NoAb

\* tpm2_init, which defines the bootloader index
D_Init(f) ==
    /\ andr_tpm
    /\ plat' = Settled(store_init(Armed(plat, f), tee_tpm, andr_tpm,
                                  g_ivshmem_rot_addr).p)
    /\ UNCHANGED <<StateFrame, vstate>>

\* get_current_state, from device_is_unlocked, device_is_locked or
\* device_is_provisioning
D_Get(f) ==
    /\ LET did(g) == /\ plat' = Settled(g.p)
                     /\ vstate' = g.v
       IN did(get_current_state(Armed(plat, f), vstate, Env, life))
    /\ UNCHANGED StateFrame

\* set_current_state
D_Set(f, state) ==
    /\ LET did(r) == /\ plat' = Settled(r.p)
                     /\ vstate' = r.v
       IN did(set_current_state(Armed(plat, f), vstate, Env, state))
    /\ UNCHANGED StateFrame

\* refresh_current_state
D_Refresh(f) ==
    /\ LET did(g) == /\ plat' = Settled(g.p)
                     /\ vstate' = g.v
       IN did(refresh_current_state(Armed(plat, f), vstate, Env, life))
    /\ UNCHANGED StateFrame

\* the next boot: the statics of vars.c are initialised again
D_Reboot ==
    /\ vstate # InitVars
    /\ vstate' = InitVars
    /\ UNCHANGED <<StateFrame, plat>>

NextState ==
    \/ \E f \in ShortFaults : D_Init(f)
    \/ \E f \in ShortFaults : D_Get(f)
    \/ \E f \in ShortFaults, state \in {LOCKED, UNLOCKED} : D_Set(f, state)
    \/ \E f \in ShortFaults : D_Refresh(f)
    \/ D_Reboot

SpecState == InitState /\ [][NextState]_vars

\* ======================================================= TPM owner lock
\* a TPM-backed device whose owner authorisation may already have been set
\* by another party, and whose OP-TEE seed index may exist
InitOwner ==
    /\ \E p \in InitPlat, o \in BOOLEAN, t \in BOOLEAN :
           plat = [p EXCEPT !.owner = o, !.optee_seed = t]
    /\ plat.oemlock = AbsentVar
    /\ tee_tpm = FALSE
    /\ andr_tpm = TRUE
    /\ secure_boot \in BOOLEAN
    /\ g_ivshmem_rot_addr = 0
    /\ seed_ok = 0
    /\ seed_ok_index = 0
    /\ last = NoOp
    /\ build = "user"
    /\ live_boot = FALSE
    /\ pc = "store"
    /\ vstate = InitVars
    /\ boot_target = "NORMAL_BOOT"
    /\ boot_state = "GREEN"
    /\ obs = NoObs
    /\ PolicyIdle
    /\ StepIdle

\* fastboot "fuse lock-owner"
O_LockOwner(f) ==
    /\ LET did(r) == /\ plat' = Settled(r.p)
                     /\ last' = [Done("lock_owner", r, plat) EXCEPT
                                    !.owned = r.p.owner /\ ~plat.owner]
       IN did(tpm2_fuse_lock_owner(Armed(plat, f), secure_boot))
    /\ UNCHANGED <<Config, seed_ok, seed_ok_index>>

NextOwner ==
    \/ \E f \in ShortFaults : S_Init(f)
    \/ \E f \in ShortFaults : S_FuseProvisionSeed(f)
    \/ \E f \in ShortFaults : S_Seal(f)
    \/ \E f \in Faults : O_LockOwner(f)
    \/ S_Reboot

SpecOwner == InitOwner /\ [][NextOwner]_vars
\* ========================================================= E820 memory map
\* ARRAY_SIZE(boot_params.e820_map)
E820_MAX == 128
EFI_PAGE_SHIFT == 12
\* boot_params.e820_entries is a UINT8
UINT8_RANGE == 256

\* EFI_MEMORY_TYPE values the switch of setup_e820_map names
KnownMemoryTypes ==
    {"EfiReservedMemoryType", "EfiLoaderCode", "EfiLoaderData",
     "EfiBootServicesCode", "EfiBootServicesData", "EfiRuntimeServicesCode",
     "EfiRuntimeServicesData", "EfiConventionalMemory", "EfiUnusableMemory",
     "EfiACPIReclaimMemory", "EfiACPIMemoryNVS", "EfiMemoryMappedIO",
     "EfiMemoryMappedIOPortSpace", "EfiPalCode"}

\* values it does not name: UEFI 2.5 persistent memory, an OEM-defined type
OtherMemoryTypes == {"EfiPersistentMemory", "OemMemoryType"}

MemoryTypes == KnownMemoryTypes \cup OtherMemoryTypes

\* the switch on d->Type; "none" is the default branch, which skips
e820_type_acpi_as_ram(Type) ==
    CASE Type \in {"EfiReservedMemoryType", "EfiRuntimeServicesCode",
                   "EfiRuntimeServicesData", "EfiMemoryMappedIO",
                   "EfiMemoryMappedIOPortSpace", "EfiPalCode"} -> "E820_RESERVED"
      [] Type = "EfiUnusableMemory" -> "E820_UNUSABLE"
      [] Type \in {"EfiLoaderCode", "EfiLoaderData", "EfiBootServicesCode",
                   "EfiBootServicesData", "EfiConventionalMemory",
                   "EfiACPIReclaimMemory"} -> "E820_RAM"
      [] Type = "EfiACPIMemoryNVS" -> "E820_NVS"
      [] OTHER -> "none"

e820_type(Type) ==
    CASE Type \in {"EfiReservedMemoryType", "EfiRuntimeServicesCode",
                   "EfiRuntimeServicesData", "EfiMemoryMappedIO",
                   "EfiMemoryMappedIOPortSpace", "EfiPalCode"} -> "E820_RESERVED"
      [] Type = "EfiUnusableMemory" -> "E820_UNUSABLE"
      [] Type = "EfiACPIReclaimMemory" -> "E820_ACPI"
      [] Type \in {"EfiLoaderCode", "EfiLoaderData", "EfiBootServicesCode",
                   "EfiBootServicesData", "EfiConventionalMemory"} -> "E820_RAM"
      [] Type = "EfiACPIMemoryNVS" -> "E820_NVS"
      [] OTHER -> "none"

\* one turn of the loop of setup_e820_map, for descriptor d; written[k] is
\* what the loop stored in e820_map[k - 1], whether or not the array has
\* that element
e820_turn(d, written) ==
    LET cur_type == e820_type(d.Type)
        n_page == Len(written)
        size == d.NumberOfPages * 2 ^ EFI_PAGE_SHIFT
    IN IF cur_type = "none" THEN written
       ELSE IF /\ n_page # 0
               /\ written[n_page].type = cur_type
               /\ written[n_page].addr + written[n_page].size = d.PhysicalStart
       THEN Append(SubSeq(written, 1, n_page - 1),
                   [addr |-> written[n_page].addr,
                    size |-> written[n_page].size + size,
                    type |-> cur_type])
       ELSE Append(written, [addr |-> d.PhysicalStart, size |-> size,
                             type |-> cur_type])

\* the turns for descriptors lo .. hi, in order; the range is halved, and
\* the first half evaluated before the second starts, to keep the
\* evaluation shallow
RECURSIVE e820_loop(_, _, _, _)
e820_loop(mem_entries, lo, hi, written) ==
    IF lo > hi THEN written
    ELSE IF lo = hi THEN e820_turn(mem_entries[lo], written)
    ELSE LET mid == (lo + hi) \div 2
             half == e820_loop(mem_entries, lo, mid, written)
         IN IF Len(half) >= 0 /\ mid >= lo
            THEN e820_loop(mem_entries, mid + 1, hi, half)
            ELSE half

\* e820_map: the elements of boot_params.e820_map that were stored;
\* past: the stores beyond its last element; e820_entries: the UINT8 count
setup_e820_map(mem_entries) ==
    LET written == e820_loop(mem_entries, 1, Len(mem_entries), <<>>)
        n_page == Len(written)
    IN [e820_map |-> IF n_page > E820_MAX THEN SubSeq(written, 1, E820_MAX)
                     ELSE written,
        past |-> IF n_page > E820_MAX THEN n_page - E820_MAX ELSE 0,
        e820_entries |-> n_page % UINT8_RANGE]

\* ---- firmware memory maps: a run of separate one-page RAM regions, then
\* up to two more descriptors of any type, each next to the one before or
\* one page further
RunLengths == {0, 1, 126, 127, 255}
LastTypes == {"EfiConventionalMemory", "EfiLoaderData", "EfiACPIReclaimMemory",
              "EfiRuntimeServicesData", "EfiPersistentMemory", "OemMemoryType"}
TailPages == 2

Run(n) == [k \in 1 .. n |->
              [Type |-> "EfiConventionalMemory",
               PhysicalStart |-> 2 * k * 2 ^ EFI_PAGE_SHIFT,
               NumberOfPages |-> 1]]

\* the address after the last page of descriptor d
EndOf(d) == d.PhysicalStart + d.NumberOfPages * 2 ^ EFI_PAGE_SHIFT

After1(start, t) == [Type |-> t.Type,
                     PhysicalStart |-> start + t.gap * 2 ^ EFI_PAGE_SHIFT,
                     NumberOfPages |-> TailPages]

Tails == [Type : MemoryTypes, gap : {0, 1}]
LastTails == [Type : LastTypes, gap : {0, 1}]

MemoryMaps ==
    LET from(n) == (2 * n + 1) * 2 ^ EFI_PAGE_SHIFT
    IN UNION {
        {Run(n)}
          \cup {Append(Run(n), After1(from(n), a)) : a \in Tails}
          \cup {Run(n) \o <<After1(from(n), a),
                             After1(EndOf(After1(from(n), a)), b)>> :
                    a \in Tails, b \in LastTails}
        : n \in RunLengths}

FnFrame == <<StepFrame, key, hj, tw, ab>>

InitE820 ==
    /\ plat = FreshPlat
    /\ tee_tpm = FALSE
    /\ andr_tpm = FALSE
    /\ secure_boot = TRUE
    /\ g_ivshmem_rot_addr = 0
    /\ seed_ok = 0
    /\ seed_ok_index = 0
    /\ last = NoOp
    /\ build = "user"
    /\ live_boot = FALSE
    /\ pc = "handover"
    /\ vstate = InitVars
    /\ boot_target = "NORMAL_BOOT"
    /\ boot_state = "GREEN"
    /\ obs = NoObs
    /\ PolicyIdle
    /\ key = NoKey
    /\ hj = NoJump
    /\ tw = NoWait
    /\ life = NotAsked
    /\ ab = NoAb
    /\ \E m \in MemoryMaps : fn = [pc |-> "setup_e820_map", mem_entries |-> m]

\* handover_kernel: setup_memory_map got the map, setup_e820_map converts it
E_Setup ==
    /\ fn.pc = "setup_e820_map"
    /\ fn' = [pc |-> "e820_done", mem_entries |-> fn.mem_entries,
              boot_params |-> setup_e820_map(fn.mem_entries)]
    /\ UNCHANGED FnFrame

NextE820 == E_Setup

SpecE820 == InitE820 /\ [][NextE820]_vars
\* ============================================ command line of a v4 image
\* a command line is a sequence of symbols: "androidboot" stands for the
\* eleven characters that strncmp looks for, "unknown" for the seven that
\* memcpy_s stores, every other symbol for one character; the string ends
\* where the sequence ends
MaxCmdLen == 5
CmdSymbols == {"androidboot", ".", "k", "=", " "}
BoundedSeq(S, n) == UNION {[1 .. k -> S] : k \in 0 .. n}
CommandLines == BoundedSeq(CmdSymbols, MaxCmdLen)

\* "while (*tempChar == ' ') tempChar += 1": the index where it stops
RECURSIVE SkipSpaces(_, _)
SkipSpaces(s, t) ==
    IF t <= Len(s) /\ s[t] = " " THEN SkipSpaces(s, t + 1) ELSE t

\* "while (true) { if (tempChar[cnt] == '\0') ... else if (tempChar[cnt] ==
\* ' ') ...; cnt++; }": the index of the NUL or blank that ends it
RECURSIVE TokenEnd(_, _)
TokenEnd(s, t) ==
    IF t > Len(s) \/ s[t] = " " THEN t ELSE TokenEnd(s, t + 1)

\* the main loop of classify_cmd_parameters with tempChar at index t
RECURSIVE classify_loop(_, _, _, _)
classify_loop(s, t, androidcmd, kernelcmd) ==
    IF t > Len(s) THEN [androidcmd |-> androidcmd, kernelcmd |-> kernelcmd]
    ELSE IF s[t] = "androidboot"
    THEN LET e == TokenEnd(s, t + 1)
             copied == androidcmd \o SubSeq(s, t, e - 1)
         IN IF e > Len(s)
            THEN [androidcmd |-> copied, kernelcmd |-> kernelcmd]
            ELSE classify_loop(s, SkipSpaces(s, e),
                     (IF s[e - 1] = "=" THEN Append(copied, "unknown")
                      ELSE copied) \o <<"\n">>,
                     kernelcmd)
    ELSE LET e == TokenEnd(s, t)
         IN IF e > Len(s)
            THEN [androidcmd |-> androidcmd,
                  kernelcmd |-> kernelcmd \o SubSeq(s, t, e - 1)]
            ELSE classify_loop(s, SkipSpaces(s, e + 1), androidcmd,
                               kernelcmd \o SubSeq(s, t, e))

\* every entry kept on the kernel command line
classify_cmd_parameters_keep(cmd_conf) ==
    LET r == classify_loop(cmd_conf, SkipSpaces(cmd_conf, 1), <<>>, <<>>)
    IN [ret |-> "EFI_SUCCESS", androidcmd |-> r.androidcmd,
        kernelcmd |-> cmd_conf]

classify_cmd_parameters(cmd_conf) ==
    LET r == classify_loop(cmd_conf, SkipSpaces(cmd_conf, 1), <<>>, <<>>)
    IN [ret |-> "EFI_SUCCESS", androidcmd |-> r.androidcmd,
        kernelcmd |-> r.kernelcmd]

BOOT_HEADER_V3 == 3
HeaderVersions == {3, 4}

InitCmdline ==
    /\ plat = FreshPlat
    /\ tee_tpm = FALSE
    /\ andr_tpm = FALSE
    /\ secure_boot = TRUE
    /\ g_ivshmem_rot_addr = 0
    /\ seed_ok = 0
    /\ seed_ok_index = 0
    /\ last = NoOp
    /\ build = "user"
    /\ live_boot = FALSE
    /\ pc = "handover"
    /\ vstate = InitVars
    /\ boot_target = "NORMAL_BOOT"
    /\ boot_state = "GREEN"
    /\ obs = NoObs
    /\ PolicyIdle
    /\ key = NoKey
    /\ hj = NoJump
    /\ tw = NoWait
    /\ life = NotAsked
    /\ ab = NoAb
    /\ \E c \in CommandLines, v \in HeaderVersions :
           fn = [pc |-> "setup_command_line", cmd_conf |-> c,
                 header_version |-> v]

\* the end of setup_command_line: cmd_conf is composed, cmdline allocated;
\* androidcmd is <<"NULL">> when the function leaves *androidcmd alone
C_Setup ==
    /\ fn.pc = "setup_command_line"
    /\ fn' = IF fn.header_version <= BOOT_HEADER_V3
             THEN [pc |-> "cmdline_done", cmd_conf |-> fn.cmd_conf,
                   header_version |-> fn.header_version,
                   ret |-> "EFI_SUCCESS",
                   cmdline |-> fn.cmd_conf, androidcmd |-> <<"NULL">>]
             ELSE LET r == classify_cmd_parameters(fn.cmd_conf)
                  IN [pc |-> "cmdline_done", cmd_conf |-> fn.cmd_conf,
                      header_version |-> fn.header_version,
                      ret |-> r.ret,
                      cmdline |-> r.kernelcmd, androidcmd |-> r.androidcmd]
    /\ UNCHANGED FnFrame

NextCmdline == C_Setup

SpecCmdline == InitCmdline /\ [][NextCmdline]_vars
\* ====================================================== androidboot.bootreason
\* a reason is a string, kept as a sequence of symbols: a literal of the
\* code is one symbol, the text of the variable one symbol per character
Literal(text) == <<text>>

\* enum wake_sources: the six that get_wake_reason names, and two it does not
NamedWakeSources ==
    {"WAKE_BATTERY_INSERTED", "WAKE_USB_CHARGER_INSERTED",
     "WAKE_ACDC_CHARGER_INSERTED", "WAKE_POWER_BUTTON_PRESSED",
     "WAKE_RTC_TIMER", "WAKE_BATTERY_REACHED_IA_THRESHOLD"}
WakeSources == NamedWakeSources \cup {"WAKE_NOT_APPLICABLE", "WAKE_ERROR"}

\* enum reset_sources: the twelve that get_reset_reason names, and one it
\* does not
NamedResetSources ==
    {"RESET_NOT_APPLICABLE", "RESET_OS_INITIATED", "RESET_FORCED",
     "RESET_FW_UPDATE", "RESET_KERNEL_WATCHDOG", "RESET_SECURITY_WATCHDOG",
     "RESET_SECURITY_INITIATED", "RESET_EC_WATCHDOG", "RESET_PMIC_WATCHDOG",
     "RESET_SHORT_POWER_LOSS", "RESET_PLATFORM_SPECIFIC", "RESET_UNKNOWN"}
ResetSources == NamedResetSources \cup {"RESET_ERROR"}

\* NULL
NoReason == <<>>

get_wake_reason(wake_source) ==
    CASE wake_source = "WAKE_BATTERY_INSERTED" -> Literal("battery_inserted")
      [] wake_source = "WAKE_USB_CHARGER_INSERTED" -> Literal("usb_charger_inserted")
      [] wake_source = "WAKE_ACDC_CHARGER_INSERTED" -> Literal("acdc_charger_inserted")
      [] wake_source = "WAKE_POWER_BUTTON_PRESSED" -> Literal("power_button_pressed")
      [] wake_source = "WAKE_RTC_TIMER" -> Literal("rtc_timer")
      [] wake_source = "WAKE_BATTERY_REACHED_IA_THRESHOLD" ->
             Literal("battery_reached_ia_threshold")
      [] OTHER -> NoReason

OS_INITIATED == Literal("os_initiated")

\* ignore_na is the build option IGNORE_NOT_APPLICABLE_RESET
get_reset_reason(reset_source, ignore_na) ==
    CASE reset_source = "RESET_NOT_APPLICABLE" /\ ~ignore_na ->
             Literal("not_applicable")
      [] reset_source = "RESET_OS_INITIATED" -> OS_INITIATED
      [] reset_source = "RESET_FORCED" -> Literal("forced")
      [] reset_source = "RESET_FW_UPDATE" -> Literal("firmware_update")
      [] reset_source = "RESET_KERNEL_WATCHDOG" -> Literal("watchdog")
      [] reset_source = "RESET_SECURITY_WATCHDOG" -> Literal("security_watchdog")
      [] reset_source = "RESET_SECURITY_INITIATED" -> Literal("security_initiated")
      [] reset_source = "RESET_EC_WATCHDOG" -> Literal("ec_watchdog")
      [] reset_source = "RESET_PMIC_WATCHDOG" -> Literal("pmic_watchdog")
      [] reset_source = "RESET_SHORT_POWER_LOSS" -> Literal("short_power_loss")
      [] reset_source = "RESET_PLATFORM_SPECIFIC" -> Literal("platform_specific")
      [] reset_source = "RESET_UNKNOWN" -> Literal("unknown")
      [] OTHER -> NoReason

\* characters of the variable: a lower-case letter, a digit, the underscore,
\* an upper-case letter, a blank
ReasonChars == {"a", "0", "_", "A", " "}
AllowedChars == {"a", "0", "_"}
MaxReasonLen == 2

\* LoaderEntryRebootReason: not there, or a text
NoVariable == [present |-> FALSE, text |-> <<>>]
RebootReasons ==
    {NoVariable} \cup
    [present : {TRUE}, text : BoundedSeq(ReasonChars, MaxReasonLen)]

\* the variable's text with any character accepted
get_boot_reason_unfiltered(wake_source, reset_source, var, ignore_na) ==
    LET wake == get_wake_reason(wake_source)
        reset == get_reset_reason(reset_source, ignore_na)
        \* get_reboot_reason(): NULL when the variable cannot be read
        rr == var
    IN IF wake # NoReason THEN wake
       ELSE IF reset # NoReason /\ reset # OS_INITIATED THEN reset
       ELSE IF ~rr.present THEN Literal("unknown")
       ELSE rr.text

get_boot_reason(wake_source, reset_source, var, ignore_na) ==
    LET wake == get_wake_reason(wake_source)
        reset == get_reset_reason(reset_source, ignore_na)
        \* get_reboot_reason(): NULL when the variable cannot be read
        rr == var
    IN IF wake # NoReason THEN wake
       ELSE IF reset # NoReason /\ reset # OS_INITIATED THEN reset
       ELSE IF ~rr.present THEN Literal("unknown")
       ELSE IF \E i \in 1 .. Len(rr.text) : rr.text[i] \notin AllowedChars
       THEN Literal("unknown")
       ELSE rr.text

InitReason ==
    /\ plat = FreshPlat
    /\ tee_tpm = FALSE
    /\ andr_tpm = FALSE
    /\ secure_boot = TRUE
    /\ g_ivshmem_rot_addr = 0
    /\ seed_ok = 0
    /\ seed_ok_index = 0
    /\ last = NoOp
    /\ build = "user"
    /\ live_boot = FALSE
    /\ pc = "handover"
    /\ vstate = InitVars
    /\ boot_target = "NORMAL_BOOT"
    /\ boot_state = "GREEN"
    /\ obs = NoObs
    /\ PolicyIdle
    /\ key = NoKey
    /\ hj = NoJump
    /\ tw = NoWait
    /\ life = NotAsked
    /\ ab = NoAb
    /\ \E w \in WakeSources, r \in ResetSources, v \in RebootReasons,
          na \in BOOLEAN, sbl \in BOOLEAN :
           fn = [pc |-> "get_boot_reason", wake_source |-> w,
                 reset_source |-> r, var |-> v, ignore_na |-> na,
                 use_sbl |-> sbl]

\* get_boot_reason, with the del_reboot_reason at its end
B_Reason ==
    /\ fn.pc = "get_boot_reason"
    /\ fn' = [pc |-> "reason_done", wake_source |-> fn.wake_source,
              reset_source |-> fn.reset_source, var |-> fn.var,
              ignore_na |-> fn.ignore_na, use_sbl |-> fn.use_sbl,
              bootreason |-> get_boot_reason(fn.wake_source, fn.reset_source,
                                             fn.var, fn.ignore_na),
              var_after |-> IF fn.use_sbl THEN fn.var ELSE NoVariable]
    /\ UNCHANGED FnFrame

NextReason == B_Reason

SpecReason == InitReason /\ [][NextReason]_vars
\* ------------------------------------------ A/B slots: a kernel that fails
\* The slot manager: a slot is [priority, tries_remaining, successful]
Suffixes == <<"_a", "_b">>
SlotNames == {Suffixes[i] : i \in 1 .. Len(Suffixes)}
MaxTries == 2
Priorities == {0, 14, 15}
SlotData == [priority : Priorities, tries_remaining : 0 .. MaxTries,
             successful : BOOLEAN]

Bootable(s) == s.priority > 0 /\ (s.successful \/ s.tries_remaining > 0)

\* the place of the active slot in Suffixes, 0 when no slot is bootable: the
\* highest priority wins, the first suffix on a tie
ActiveAt(slots) ==
    LET ok == {i \in 1 .. Len(Suffixes) : Bootable(slots[Suffixes[i]])}
    IN IF ok = {} THEN 0
       ELSE CHOOSE i \in ok :
                \A j \in ok :
                    \/ slots[Suffixes[i]].priority > slots[Suffixes[j]].priority
                    \/ /\ slots[Suffixes[i]].priority = slots[Suffixes[j]].priority
                       /\ i <= j

\* the suffix of the active slot, "none" (NULL) when all slots are exhausted
slot_get_active(slots) ==
    IF ActiveAt(slots) = 0 THEN "none" ELSE Suffixes[ActiveAt(slots)]

\* one try of a slot that never booted successfully is used up
mark_boot_attempt(slots, suffix) ==
    IF slots[suffix].successful \/ slots[suffix].tries_remaining = 0 THEN slots
    ELSE [slots EXCEPT ![suffix].tries_remaining = @ - 1]

\* the slot is disabled for good
slot_boot_failed(slots, suffix) ==
    [slots EXCEPT ![suffix].priority = 0, ![suffix].tries_remaining = 0]

\* load_image with "ret = slot_boot_failed(boot_target)" after the start of
\* the kernel failed; out.slots is the metadata afterwards
load_image_slot(p, e, bootimage, bs, mem_map_ok, setup, started, slots, cur) ==
    LET r == load_image(p, e, bootimage, bs, mem_map_ok, setup, started)
    IN [r EXCEPT !.out = [load |-> r.out,
                          slots |-> IF r.out.tried /\ ~r.out.handed
                                    THEN slot_boot_failed(slots, cur)
                                    ELSE slots]]

\* efi_main after load_image returned: the switch on boot_target
efi_main_after_load(target, slots) ==
    IF target \in {"NORMAL_BOOT", "CHARGER"} /\ slot_get_active(slots) # "none"
    THEN "reset"
    ELSE "recover"

SlotFrame == <<plat, tee_tpm, andr_tpm, secure_boot, g_ivshmem_rot_addr, seed_ok,
               seed_ok_index, last, build, live_boot, vstate, boot_target,
               boot_state, obs, policyVars, key, hj, tw, life, fn>>

\* a device about to start an image that verified, with a bootable slot
InitSlot ==
    /\ plat = FreshPlat
    /\ tee_tpm = FALSE
    /\ andr_tpm = FALSE
    /\ secure_boot = TRUE
    /\ g_ivshmem_rot_addr = 0
    /\ seed_ok = 0
    /\ seed_ok_index = 0
    /\ last = NoOp
    /\ build \in {"user", "userdebug"}
    /\ live_boot = FALSE
    /\ pc = "verify"
    /\ vstate = InitVars
    /\ boot_target \in {"NORMAL_BOOT", "CHARGER"}
    /\ boot_state \in {"GREEN", "ORANGE"}
    /\ obs = NoObs
    /\ PolicyIdle
    /\ key = NoKey
    /\ hj = NoJump
    /\ tw = NoWait
    /\ life = NotAsked
    /\ fn = NoFn
    /\ \E slots \in [SlotNames -> SlotData] :
          /\ slot_get_active(slots) # "none"
          /\ ab = [cur |-> "none", slots |-> slots, tried |-> FALSE]

\* the image of the active slot is loaded and verified; attempt: the
\* verifier asks for the try to be counted
A_Verify(attempt) ==
    /\ pc = "verify"
    /\ ab.cur = "none"
    /\ LET cur == slot_get_active(ab.slots)
       IN ab' = [cur |-> cur,
                 slots |-> IF attempt THEN mark_boot_attempt(ab.slots, cur)
                           ELSE ab.slots,
                 tried |-> FALSE]
    /\ pc' = "load"
    /\ UNCHANGED SlotFrame

\* efi_main: load_image, whose kernel does not start, and the switch behind it
A_Load(mem_map_ok, setup) ==
    /\ pc = "load"
    /\ mem_map_ok \/ (build = "user" /\ boot_state = "ORANGE")
    /\ LET r == load_image_slot(plat, Env, TRUE, boot_state, mem_map_ok, setup,
                                FALSE, ab.slots, ab.cur)
       IN /\ ab' = [ab EXCEPT !.slots = r.out.slots, !.tried = r.out.load.tried]
          /\ pc' = IF r.out.load.died THEN "halt"
                   ELSE efi_main_after_load(boot_target, r.out.slots)
    /\ UNCHANGED SlotFrame

\* reboot_to_target: the platform resets and efi_main comes back to the image
A_Reboot ==
    /\ pc = "reset"
    /\ ab' = [ab EXCEPT !.cur = "none", !.tried = FALSE]
    /\ pc' = "verify"
    /\ UNCHANGED SlotFrame

NextSlot ==
    \/ \E attempt \in BOOLEAN : A_Verify(attempt)
    \/ \E m \in BOOLEAN, s \in {"ok", "error", "die"} : A_Load(m, s)
    \/ A_Reboot

SpecSlot == InitSlot /\ [][NextSlot]_vars

\* the loader is not held up: a step that can be taken is taken
SpecSlotFair == SpecSlot /\ WF_vars(NextSlot)
\* ----------------------------------------------------- boot policy: claims
\* the order in which the policy consults its signals
SignalOrder == <<"command_line", "fastboot_sentinel", "magic_key", "watchdog",
                 "battery_inserted", "bcb", "loader_entry_one_shot", "battery",
                 "charge_mode">>

Position(sig) == CHOOSE i \in 1 .. Len(SignalOrder) : SignalOrder[i] = sig

Evaluated(sig) == \E i \in 1 .. Len(pobs.tr) : pobs.tr[i].sig = sig

\* the policy of this boot ran to its end
Chosen == pc = "p_done" /\ pobs.target # "none"

\* C11: the signals are evaluated in the fixed order; the target returned is
\* the result of the first signal that yields something else than NormalBoot
\* (for the BCB after boot-fastboot has become Recovery), no signal is
\* evaluated after it, and no variable of a signal that was not evaluated is
\* touched.
C11_FirstSignalDecides ==
    Chosen =>
        /\ \A i, j \in 1 .. Len(pobs.tr) :
               i < j => Position(pobs.tr[i].sig) < Position(pobs.tr[j].sig)
        /\ \A i \in 1 .. Len(pobs.tr) - 1 : pobs.tr[i].ret = "NORMAL_BOOT"
        /\ Len(pobs.tr) > 0
        /\ \/ pobs.target = pobs.tr[Len(pobs.tr)].ret
           \/ /\ pobs.tr[Len(pobs.tr)] = [sig |-> "bcb", ret |-> "FASTBOOT"]
              /\ pobs.target = "RECOVERY"
        /\ ~Evaluated("loader_entry_one_shot")
               => efivars.LOADER_ENTRY_ONESHOT = pobs.v0.LOADER_ENTRY_ONESHOT
        /\ ~Evaluated("bcb") => misc = pobs.m0
        /\ ~Evaluated("watchdog")
               => /\ efivars.WDT_COUNTER = pobs.v0.WDT_COUNTER
                  /\ efivars.WDT_TIME_REF = pobs.v0.WDT_TIME_REF

\* the two ways the code departs from it
C11_DnxPassedOver ==
    Chosen /\ \E i \in 1 .. Len(pobs.tr) - 1 : pobs.tr[i].ret = "DNX"

C11_OneShotDeletedUnread ==
    /\ Chosen
    /\ ~Evaluated("loader_entry_one_shot")
    /\ efivars.LOADER_ENTRY_ONESHOT # pobs.v0.LOADER_ENTRY_ONESHOT

\* ivshmem_init, tee_tpm2_init or tpm2_init was called in this boot and
\* failed with something else than EFI_NOT_FOUND
InitFailed ==
    /\ pobs.next = "go"
    /\ \/ tee_tpm /\ pobs.h.ivshmem = "EFI_DEVICE_ERROR"
       \/ ~live_boot /\ (tee_tpm \/ andr_tpm) /\ pobs.h.tpm = "EFI_DEVICE_ERROR"

SignalReads == {"read_bcb", "WDT_COUNTER", "WDT_TIME_REF", "GetTime",
                "LOADER_ENTRY_ONESHOT"}
SettingReads == {"OFF_MODE_CHARGE", "CRASH_EVENT_MENU", "WDT_COUNTER_MAX",
                 "REBOOT_REASON"}

\* a read of this boot failed while a signal was evaluated
ReadFailed(reads) ==
    Chosen /\ pobs.hit \in reads /\ pobs.hit_at <= Len(pobs.tr)

\* what the policy chooses for the signals of this boot without the failure,
\* on the variables it started with but for the one named, which is absent
ChoiceWithout(name) ==
    choose_boot_target(
        PolicyAt([pobs.h EXCEPT !.fail = "none"],
                 [pobs.v0 EXCEPT ![name] = Absent(name)], pobs.m0, ColdCache)).ret

\* C13 as stated: the signal that met a read error on the BCB, a variable,
\* the clock or the watchdog counters yields NormalBoot.
C13_ReadErrorYieldsNormalBoot ==
    ReadFailed(SignalReads \cup SettingReads)
        => pobs.tr[pobs.hit_at].ret = "NORMAL_BOOT"

\* C13: a read error on the BCB, the watchdog counter or time reference, the
\* clock or LoaderEntryOneShot makes its signal yield NormalBoot; a read
\* error on a setting or on the reboot reason is taken for an absent
\* variable, and the policy chooses what it chooses without that variable.
C13_ReadErrorFallsBack ==
    /\ ReadFailed(SignalReads) => pobs.tr[pobs.hit_at].ret = "NORMAL_BOOT"
    /\ ReadFailed(SettingReads) => pobs.target = ChoiceWithout(pobs.hit)

\* the BCB asks for recovery and cannot be read
C13_Witness ==
    /\ ReadFailed({"read_bcb"})
    /\ pobs.m0.command = [prefix |-> "boot-", target |-> "recovery"]
    /\ pobs.tr[pobs.hit_at] = [sig |-> "bcb", ret |-> "NORMAL_BOOT"]
    /\ misc = pobs.m0

\* off-mode charge is stored as disabled, its read fails, and the boot
\* powers off on a battery-inserted wake
C13_SettingReadDecides ==
    /\ ReadFailed({"OFF_MODE_CHARGE"})
    /\ pobs.v0.OFF_MODE_CHARGE = "0"
    /\ pobs.target = "POWER_OFF"

\* WatchdogCounterMax as this build reads it
CounterMax ==
    IF build = "user" \/ efivars.WDT_COUNTER_MAX = -1 THEN WATCHDOG_COUNTER_MAX
    ELSE efivars.WDT_COUNTER_MAX

\* this boot is the n-th of a run of watchdog or panic boots
RunBoot(n) == Chosen /\ run.n = n

C14_EarlyPrompt ==
    /\ RunBoot(1)
    /\ ~run.clean
    /\ pobs.crash_event

\* check_watchdog counted this boot and stored the count: the count did not
\* exceed the maximum and the variable was written
Counted ==
    /\ Chosen
    /\ pobs.wd.counted
    /\ ~pobs.crash_event
    /\ pobs.hit = "none"

\* the boot came later than WATCHDOG_DELAY after the time reference, or
\* before it
Late ==
    /\ pobs.v0.WDT_COUNTER > 0
    /\ \/ rtc - pobs.v0.WDT_TIME_REF > WATCHDOG_DELAY
       \/ rtc < pobs.v0.WDT_TIME_REF

\* the counter a boot starts with, and the one it leaves: absent is 0
Counter(v) == IF v.WDT_COUNTER = -1 THEN 0 ELSE v.WDT_COUNTER

\* C15 as stated: a watchdog or panic boot later than WATCHDOG_DELAY after
\* the time reference leaves the counter at 0, any other leaves it
\* incremented by one.
C15_LateBootResetsCounter ==
    Counted /\ pobs.v0.WDT_COUNTER \in 1 .. 254 /\ rtc >= pobs.v0.WDT_TIME_REF
        => Counter(efivars) = IF rtc - pobs.v0.WDT_TIME_REF > WATCHDOG_DELAY
                              THEN 0
                              ELSE Counter(pobs.v0) + 1

\* C15: a late boot restarts the count: it leaves the counter at 1 and the
\* time reference at now; any other leaves the counter incremented by one,
\* as a UINT8, and the time reference as it was (set to now when there was
\* no count).
C15_LateBootRestartsCounter ==
    Counted => /\ Counter(efivars) = IF Late THEN 1
                                     ELSE (Counter(pobs.v0) + 1) % 256
               /\ efivars.WDT_TIME_REF = IF Late \/ Counter(pobs.v0) = 0 THEN rtc
                                         ELSE pobs.v0.WDT_TIME_REF

\* a boot 900 s after the first of two watchdog boots
C15_Witness ==
    /\ Counted
    /\ Late
    /\ pobs.v0.WDT_COUNTER = 2
    /\ rtc - pobs.v0.WDT_TIME_REF = 900
    /\ efivars.WDT_COUNTER = 1
    /\ efivars.WDT_TIME_REF = rtc

\* the BCB signal of this boot read a command of the given prefix naming a
\* target, and nothing failed
BcbCommand(prefix) ==
    /\ Chosen
    /\ Evaluated("bcb")
    /\ pobs.hit = "none"
    /\ pobs.m0.command.prefix = prefix
    /\ name_to_boot_target(pobs.m0.command.target) # "UNKNOWN_TARGET"

\* the target the command names
Named == name_to_boot_target(pobs.m0.command.target)

\* the target chosen on the same signals by a boot that starts where this
\* one ended
ChoiceAgain ==
    choose_boot_target(PolicyAt(pobs.h, efivars, misc, ColdCache)).ret

\* C16 as stated: bootonce-<tgt> selects tgt and the command is cleared
\* when the policy returns; boot-<tgt> selects tgt and the command stays.
C16_CommandSelectsTarget ==
    /\ BcbCommand("bootonce-")
           => pobs.target = Named /\ misc.command = EmptyCommand
    /\ BcbCommand("boot-")
           => pobs.target = Named /\ misc.command = pobs.m0.command

\* C16: bootonce-<tgt> selects tgt and the command is cleared when the
\* policy returns; boot-<tgt> selects tgt, or Recovery when tgt is
\* fastboot, the command stays and selects the same on the next boot with
\* the same signals (one whose reset no watchdog or panic caused).
C16_CommandSelectsCanonicalTarget ==
    /\ BcbCommand("bootonce-")
           => pobs.target = Named /\ misc.command = EmptyCommand
    /\ BcbCommand("boot-")
           => /\ pobs.target = IF Named = "FASTBOOT" THEN "RECOVERY" ELSE Named
              /\ misc.command = pobs.m0.command
              /\ ~WatchdogBoot(pobs.h, pobs.v0) => ChoiceAgain = pobs.target

\* a one-shot command that selected recovery and is gone
C16_Witness ==
    /\ BcbCommand("bootonce-")
    /\ pobs.m0.command.target = "recovery"
    /\ pobs.target = "RECOVERY"
    /\ misc.command = EmptyCommand

\* boot-fastboot selects recovery
C16_FastbootIsRecovery ==
    /\ BcbCommand("boot-")
    /\ pobs.m0.command.target = "fastboot"
    /\ pobs.target = "RECOVERY"
    /\ misc.command = pobs.m0.command

\* the target chosen for the signals of this boot, the variables and the BCB
\* it started with, by a loader that has evaluated nothing before
ChoiceAfresh ==
    choose_boot_target(PolicyAt(pobs.h, pobs.v0, pobs.m0, ColdCache)).ret

TargetOrder == <<"NORMAL_BOOT", "CHARGER", "RECOVERY", "FASTBOOT", "CRASHMODE",
                 "POWER_OFF">>
Ranked == {TargetOrder[i] : i \in 1 .. Len(TargetOrder)}
Rank(t) == CHOOSE i \in 1 .. Len(TargetOrder) : TargetOrder[i] = t

\* BCB commands an escalation puts into an empty BCB
EscCommands == {[prefix |-> "boot-", target |-> "recovery"],
                [prefix |-> "bootonce-", target |-> "fastboot"]}

\* the signals of this boot with one more escalating signal: the magic key
\* held, the sentinel file there, a boot target in the BCB.  asks is the
\* target that signal selects, gets the target chosen then
Escalated(signal, asks, h, m) ==
    [signal |-> signal, asks |-> asks,
     gets |-> choose_boot_target(PolicyAt(h, pobs.v0, m, ColdCache)).ret]

Escalations ==
    {Escalated("magic_key", "FASTBOOT", [pobs.h EXCEPT !.key = "held"], pobs.m0) :
        x \in IF pobs.h.key = "none" THEN {0} ELSE {}}
    \cup {Escalated("fastboot_sentinel", "FASTBOOT",
                    [pobs.h EXCEPT !.sentinel = TRUE], pobs.m0) :
        x \in IF ~pobs.h.sentinel THEN {0} ELSE {}}
    \cup {Escalated("bcb",
                    IF c.prefix = "boot-" /\ name_to_boot_target(c.target) = "FASTBOOT"
                    THEN "RECOVERY" ELSE name_to_boot_target(c.target),
                    pobs.h, [pobs.m0 EXCEPT !.command = c]) :
        c \in IF pobs.m0.command = EmptyCommand THEN EscCommands ELSE {}}

\* a signal before sig decided this boot
DecidedBefore(sig) ==
    \E i \in 1 .. Len(pobs.tr) :
        /\ Position(pobs.tr[i].sig) < Position(sig)
        /\ pobs.tr[i].ret # "NORMAL_BOOT"

\* C18 as stated: with one more escalating signal and everything else the
\* same, the target is not lower in the ordering than without it.
C18_Monotonic ==
    Chosen /\ pobs.target \in Ranked
        => \A e \in Escalations :
               e.gets \in Ranked => Rank(e.gets) >= Rank(pobs.target)

\* C18: with one more escalating signal and everything else the same, the
\* target is the old one when an earlier signal decided (or the BCB cannot
\* be read), and otherwise the target of the escalating signal, whatever
\* the later signals chose: it is lower when those chose a higher one.
C18_EscalationDecidesInOrder ==
    Chosen
        => \A e \in Escalations :
               e.gets = IF DecidedBefore(e.signal)
                           \/ (e.signal = "bcb" /\ pobs.h.fail = "read_bcb")
                        THEN pobs.target
                        ELSE e.asks

\* a boot on a charger wake chose Charger; with the key held it is Fastboot
C18_Witness ==
    /\ Chosen
    /\ pobs.target = "CHARGER"
    /\ \E e \in Escalations : e.signal = "magic_key" /\ e.gets = "FASTBOOT"

\* a boot that powers off on a flat battery goes to recovery with a BCB
\* command
C18_Lowered ==
    /\ Chosen
    /\ pobs.target = "POWER_OFF"
    /\ \E e \in Escalations : e.signal = "bcb" /\ e.gets = "RECOVERY"

\* what the watchdog signal returned in this boot
WatchdogResult ==
    pobs.tr[CHOOSE i \in 1 .. Len(pobs.tr) : pobs.tr[i].sig = "watchdog"].ret

\* the policy of this boot produced a crash: it returned CRASHMODE, or its
\* watchdog signal reached the crash event
CrashProduced == Chosen /\ (pobs.target = "CRASHMODE" \/ pobs.crash_event)

C19_CrashEventThenRecovery ==
    /\ Chosen
    /\ pobs.crash_event
    /\ pobs.prompted = 1
    /\ pobs.acted = "RECOVERY"

\* the first four signals of this boot all yielded NormalBoot
NoEarlierDecided == Chosen /\ Len(pobs.tr) >= 5

BatteryInsertedWake == pobs.h.wake_source = "WAKE_BATTERY_INSERTED"

\* OFF_MODE_CHARGE as this boot reads it: "0" stored and readable is
\* disabled, anything else (unset, "1", a failed read) is enabled
OffModeChargeDisabled ==
    pobs.v0.OFF_MODE_CHARGE = "0" /\ pobs.h.fail # "OFF_MODE_CHARGE"

C20_DisabledBootsNormally ==
    /\ NoEarlierDecided
    /\ BatteryInsertedWake
    /\ OffModeChargeDisabled
    /\ ~cfg.USE_SBL
    /\ Evaluated("battery_inserted")
    /\ pobs.target = "NORMAL_BOOT"

\* what signal sig returned in this boot
Result(sig) ==
    pobs.tr[CHOOSE i \in 1 .. Len(pobs.tr) : pobs.tr[i].sig = sig].ret

\* every signal up to LoaderEntryOneShot left the target open: the one-shot
\* yielded NormalBoot, or DNX, which the policy passes over
OneShotPassed ==
    /\ Chosen
    /\ Evaluated("loader_entry_one_shot")
    /\ Result("loader_entry_one_shot") \in {"NORMAL_BOOT", "DNX"}

BatteryLow == pobs.h.battery \in {"plugged", "unplugged"}

BatteryTarget == IF pobs.h.battery = "plugged" THEN "CHARGER" ELSE "POWER_OFF"

\* C21 as stated: no earlier signal decided and the battery below the boot
\* OS threshold give Charger with a charger plugged in and PowerOff without,
\* whatever the off-mode-charging setting.
C21_LowBatteryDecidesWhateverSetting ==
    (/\ OneShotPassed
     /\ Result("loader_entry_one_shot") = "NORMAL_BOOT"
     /\ ~cfg.USE_SBL
     /\ BatteryLow)
        => pobs.target = BatteryTarget

\* C21: when no earlier signal has decided the target and the battery is
\* below the boot OS threshold, the target is Charger with a charger plugged
\* in and PowerOff without, provided the build is not an SBL build and
\* off-mode charging is enabled.  With off-mode charging disabled the
\* battery level is not looked at and the target is NormalBoot; an SBL build
\* does not evaluate the signal.
C21_LowBatteryDecidesWhenEnabled ==
    OneShotPassed /\ BatteryLow
        => IF cfg.USE_SBL
           THEN /\ ~Evaluated("battery")
                /\ pobs.target = Result("loader_entry_one_shot")
           ELSE IF OffModeChargeDisabled
           THEN /\ Result("battery") = "NORMAL_BOOT"
                /\ pobs.target = "NORMAL_BOOT"
           ELSE /\ pobs.tr[Len(pobs.tr)] = [sig |-> "battery", ret |-> BatteryTarget]
                /\ pobs.target = BatteryTarget

\* low battery without a charger, off-mode charging enabled: power off
C21_Witness ==
    /\ OneShotPassed
    /\ pobs.h.battery = "unplugged"
    /\ ~cfg.USE_SBL
    /\ ~OffModeChargeDisabled
    /\ pobs.target = "POWER_OFF"
    /\ pobs.acted = "POWER_OFF"

\* low battery with a charger: charge mode
C21_ChargerWitness ==
    /\ OneShotPassed
    /\ pobs.h.battery = "plugged"
    /\ ~cfg.USE_SBL
    /\ pobs.target = "CHARGER"

\* every signal up to the battery level left the target open
BatteryPassed ==
    /\ OneShotPassed
    /\ Evaluated("battery") => Result("battery") = "NORMAL_BOOT"

ChargerWake ==
    pobs.h.wake_source \in {"WAKE_USB_CHARGER_INSERTED", "WAKE_ACDC_CHARGER_INSERTED"}

\* C22 as stated: no earlier signal decided and a USB or AC/DC charger wake
\* give Charger, whatever the off-mode-charging setting.
C22_ChargerWakeDecidesWhateverSetting ==
    (/\ BatteryPassed
     /\ Result("loader_entry_one_shot") = "NORMAL_BOOT"
     /\ ~cfg.USE_SBL
     /\ ChargerWake)
        => pobs.target = "CHARGER"

\* C22: when no earlier signal has decided the target and the wake source
\* is USB- or AC/DC-charger-inserted, the target is Charger provided the
\* build is not an SBL build and off-mode charging is enabled.  With
\* off-mode charging disabled the target is NormalBoot; an SBL build does
\* not evaluate the signal.
C22_ChargerWakeDecidesWhenEnabled ==
    BatteryPassed /\ ChargerWake
        => IF cfg.USE_SBL
           THEN /\ ~Evaluated("charge_mode")
                /\ pobs.target = Result("loader_entry_one_shot")
           ELSE IF OffModeChargeDisabled
           THEN /\ Result("charge_mode") = "NORMAL_BOOT"
                /\ pobs.target = "NORMAL_BOOT"
           ELSE /\ pobs.tr[Len(pobs.tr)] = [sig |-> "charge_mode", ret |-> "CHARGER"]
                /\ pobs.target = "CHARGER"

\* woken by an AC/DC charger, off-mode charging enabled: charge mode
C22_Witness ==
    /\ BatteryPassed
    /\ pobs.h.wake_source = "WAKE_ACDC_CHARGER_INSERTED"
    /\ ~cfg.USE_SBL
    /\ ~OffModeChargeDisabled
    /\ pobs.target = "CHARGER"
    /\ pobs.acted = "CHARGER"

\* woken by a USB charger with off-mode charging disabled: a normal boot
C22_DisabledBootsNormally ==
    /\ BatteryPassed
    /\ pobs.h.wake_source = "WAKE_USB_CHARGER_INSERTED"
    /\ ~cfg.USE_SBL
    /\ OffModeChargeDisabled
    /\ pobs.target = "NORMAL_BOOT"

\* the BCB step of this boot read the command boot-fastboot
BcbBootFastboot ==
    /\ Chosen
    /\ Evaluated("bcb")
    /\ pobs.h.fail # "read_bcb"
    /\ pobs.m0.command = [prefix |-> "boot-", target |-> "fastboot"]

\* C23: whenever the policy reaches the BCB step and reads the command
\* boot-fastboot there, the BCB signal yields Fastboot and the policy
\* returns Recovery, never Fastboot.
C23_BootFastbootIsRecovery ==
    BcbBootFastboot => /\ Result("bcb") = "FASTBOOT"
                       /\ pobs.tr[Len(pobs.tr)].sig = "bcb"
                       /\ pobs.target = "RECOVERY"
                       /\ pobs.decided = "RECOVERY"

\* boot-fastboot in the BCB and the boot goes to recovery
C23_Witness ==
    /\ BcbBootFastboot
    /\ pobs.target = "RECOVERY"
    /\ pobs.acted = "RECOVERY"

\* the poll window is set: the loop has begun
KeyPolling == key.pc \in {"poll", "polled", "done"}

\* the wait for the first key press never lasts longer than the window, and
\* it ends: without a key after exactly the window
KeyWaitBounded ==
    /\ KeyPolling => /\ key.stalled <= key.wait_ms
                     /\ key.reads <= key.wait_ms + 1
    /\ key.pc \in {"polled", "done"} /\ EFI_ERROR(key.ret)
           => key.stalled = key.wait_ms

\* C24 as stated: the window is the configured MagicKeyTimeout, 200 ms when
\* the variable is unset or unreadable, and 1000 ms when the configured
\* value exceeds 1000 ms; the wait never lasts longer than the window.
C24_WindowClamped ==
    /\ KeyPolling =>
           key.wait_ms = IF EFI_ERROR(key.var.ret) THEN 200
                         ELSE IF key.var.value > 1000 THEN 1000
                         ELSE key.var.value
    /\ KeyWaitBounded

\* C24: the window is the configured MagicKeyTimeout when that is at most
\* 1000 ms, and 200 ms when the variable is unset or unreadable or holds
\* more than 1000 ms; the wait for the first key press never lasts longer
\* than the window.
C24_WindowDefaultsAbove1000 ==
    /\ KeyPolling =>
           key.wait_ms = IF EFI_ERROR(key.var.ret) THEN 200
                         ELSE IF key.var.value > 1000 THEN 200
                         ELSE key.var.value
    /\ KeyWaitBounded

\* 1001 ms configured, no key: the poll gave up after 200 ms
C24_Witness ==
    /\ key.pc = "done"
    /\ key.var = [ret |-> "EFI_SUCCESS", value |-> 1001]
    /\ key.press_at = -1
    /\ key.wait_ms = 200
    /\ key.stalled = 200
    /\ key.target = "NORMAL_BOOT"

\* 1000 ms configured and the key pressed at the very end: still seen
C24_LastMillisecond ==
    /\ key.pc = "done"
    /\ key.var.value = 1000
    /\ key.press_at = 1000
    /\ key.held
    /\ key.stalled = 1000
    /\ key.target = "FASTBOOT"

\* ---------------------------------------------------------------- C25
\* the ExitBootServices calls of the handover so far
Exits == {"exit_ok", "exit_fail"}
Attempts(trace) == Count(trace, "exit_ok") + Count(trace, "exit_fail")

\* the entry of the trace before position k that is a sample or a call
RECURSIVE LastOf(_, _, _)
LastOf(trace, k, set) ==
    IF k = 0 THEN "none"
    ELSE IF trace[k] \in set THEN trace[k]
    ELSE LastOf(trace, k - 1, set)

C25_ThirdAttempt ==
    /\ hj.pc = "boot"
    /\ Count(hj.trace, "exit_fail") = 2
    /\ Count(hj.trace, "sample") = 3

\* ---------------------------------------------------------------- C26
\* handover_jump is past setup_gdt and has not returned
Jumping == hj.pc \in {"map", "exit", "boot", "kernel"}

\* the trace from the entry after the first occurrence of mark
RECURSIVE Since(_, _)
Since(trace, mark) ==
    IF trace = <<>> THEN <<>>
    ELSE IF Head(trace) = mark THEN Tail(trace)
    ELSE Since(Tail(trace), mark)

HeapCount(trace) == Count(trace, "alloc") + Count(trace, "free")

C26_ReleasedBeforeCall ==
    /\ ~hj.uefi
    /\ hj.pc = "map"
    /\ hj.i = 1
    /\ hj.trace[Len(hj.trace)] = "exit_fail"
    /\ hj.trace[Len(hj.trace) - 1] = "free"

\* ---------------------------------------------------------------- C27
\* handover_jump returned and efi_main is past the return of load_image
JumpFailed == hj.pc \in {"recover", "reset", "fastboot"}

\* the activities of the boot flow
FlowActivities == {"slot_boot_failed", "slot_get_active", "prompt",
                   "enter_fastboot_mode"}

\* C27: when every ExitBootServices call failed, or handover_jump returned
\* for another reason, the boot ends there: a cold reset is requested (or
\* the system halts), and no slot bookkeeping, no user prompt and no
\* fastboot session follows the return.
C27_ReturnIsFatal ==
    JumpFailed =>
        /\ hj.pc = "reset"
        /\ \A k \in DOMAIN hj.trace : hj.trace[k] \notin FlowActivities

\* all ten ExitBootServices calls failed; after that the slot failure was
\* recorded, the user was asked, and fastboot mode was entered
C27_FastbootAfterFailedExit ==
    /\ hj.pc = "fastboot"
    /\ Count(hj.trace, "exit_fail") = EXIT_BOOT_SERVICES_TRIES
    /\ Later(hj.trace, "exit_fail", "slot_boot_failed")
    /\ Later(hj.trace, "slot_boot_failed", "prompt")
    /\ hj.asked

\* what does hold: handover_jump never returns once a call succeeded, and
\* after its return the boot image is not started in this pass
C27_NoReturnAfterExit ==
    /\ Later(hj.trace, "exit_ok", "jump") => hj.pc = "kernel"
    /\ Count(hj.trace, "exit_ok") = 1 => hj.pc \in {"boot", "kernel"}
    /\ JumpFailed => Count(hj.trace, "jump") = 0

\* ---------------------------------------------------------------- C28
\* the call forwarded a request and returned
TeeReturned == tw.pc = "done" /\ tw.forwarded

C28_ReturnedUnanswered ==
    /\ TeeReturned
    /\ ~tw.answered
    /\ tw.ret = NOT_READY_MAGIC

\* the slot was read once: the peer has answered and the loop still runs
\* on the value it read before
C28_SpinsAnswered ==
    /\ tw.pc = "wait"
    /\ tw.answered
    /\ tw.build = "hoisted"
    /\ tw.seen = NOT_READY_MAGIC
    /\ tw.slot # NOT_READY_MAGIC

\* when the slot is read on every turn, a forwarded call returns only
\* with the reply
C28_RereadReturnsReply ==
    (TeeReturned /\ tw.build = "reread") =>
        tw.answered /\ tw.seen # NOT_READY_MAGIC /\ tw.ret = tw.seen

\* the second half of C28 alone: once the peer has answered a forwarded
\* request, the call returns
C28_AnswerEndsWait == (tw.forwarded /\ tw.answered) ~> (tw.pc = "done")

\* ---------------------------------------------------------------- C29
\* device_is_provisioning() answers TRUE
Provisioning == vstate.provisioning_mode
\* the backing holds no lock state
RecordAbsent == PersistedLock(plat, tee_tpm, andr_tpm) = -1
\* life_cycle_is_enduser succeeded and answered TRUE
SaysEndUser == life.life = "enduser"

\* C29 (as stated): the device is provisioning only while the device-state
\* record is absent and the life cycle does not say end-user.
C29_ProvisioningOnlyBeforeEndUser ==
    Provisioning => RecordAbsent /\ ~SaysEndUser

\* C29 (amended): the device becomes provisioning only in a
\* get_current_state that finds the record absent on a boot device that is
\* not virtual, and whose life cycle either does not say end-user (it says
\* another state, or is not supported) or says so to a build that is not a
\* USER build; from then on it stays provisioning until the next boot,
\* whether or not the record is written in between.
C29_ProvisioningEntry ==
    [][/\ (~Provisioning /\ Provisioning') =>
              /\ RecordAbsent
              /\ ~life.virt
              /\ ~live_boot
              /\ life.life \in {"EFI_NOT_FOUND", "not_enduser"}
                 \/ (SaysEndUser /\ build # "user")
              /\ vstate'.current_state = UNLOCKED
       /\ (Provisioning /\ ~Provisioning') => vstate' = InitVars]_vars

\* a userdebug build whose life cycle says end-user is provisioning
C29_Witness ==
    /\ Provisioning
    /\ RecordAbsent
    /\ SaysEndUser
    /\ build = "userdebug"
    /\ vstate.current_state = UNLOCKED

\* the record was written and the device still counts as provisioning
C29_ProvisioningAfterWrite ==
    /\ Provisioning
    /\ ~RecordAbsent
    /\ vstate.current_state = LOCKED

\* ---------------------------------------------------------------- C30
\* C30: on the EFI variable backing, a write of the lock state that
\* succeeds leaves OEMLock non-volatile and without runtime access, holding
\* the state written; and a read that finds OEMLock with runtime access
\* fails instead of handing out its value.
C30_NoRuntimeOemLock ==
    Backing = "efi" =>
        /\ (last.op = "write_state" /\ ~EFI_ERROR(last.ret)) =>
               /\ plat.oemlock.present
               /\ plat.oemlock.nv
               /\ ~plat.oemlock.rt
        /\ (last.op = "read_state" /\ plat.oemlock.present /\ plat.oemlock.rt) =>
               /\ EFI_ERROR(last.ret)
               /\ ~last.faulted => last.ret = "EFI_SECURITY_VIOLATION"

\* a planted OEMLock with runtime access was read and rejected
C30_Witness ==
    /\ Backing = "efi"
    /\ last.op = "read_state"
    /\ plat.oemlock = PlantedVar
    /\ last.ret = "EFI_SECURITY_VIOLATION"

\* a write replaced the planted variable by one without runtime access
C30_WriteWitness ==
    /\ Backing = "efi"
    /\ last.op = "write_state"
    /\ last.ret = "EFI_SUCCESS"
    /\ plat.oemlock.present /\ plat.oemlock.nv /\ ~plat.oemlock.rt

\* --------------------------------------------------- claims on the owner lock
\* an index of config_table is missing or has other attributes
ProvisionIncomplete(p) ==
    \/ \E i \in Idx : ~p.nv[i].defined \/ ~p.nv[i].good
    \/ ~p.optee_seed

LockOwnerRan == last.op = "lock_owner"

\* C31: a tpm2_fuse_lock_owner while provisioning is incomplete is aborted
\* with an error and leaves the owner authorisation unchanged.
C31_LockOwnerAborts ==
    (LockOwnerRan /\ ProvisionIncomplete(plat))
        => (EFI_ERROR(last.ret) /\ ~last.owned)

\* C31, as the code has it: the owner authorisation is never changed while
\* provisioning is incomplete, and the call fails unless the owner
\* authorisation was set already, when it returns EFI_SUCCESS
C31_LockOwnerAbortsUnlessOwned ==
    (LockOwnerRan /\ ProvisionIncomplete(plat))
        => /\ ~last.owned
           /\ ~plat.owner => EFI_ERROR(last.ret)
           /\ (plat.owner /\ ~last.faulted) => last.ret = "EFI_SUCCESS"

C31_Witness ==
    /\ LockOwnerRan
    /\ ProvisionIncomplete(plat)
    /\ ~plat.owner
    /\ secure_boot
    /\ last.ret = "EFI_DEVICE_ERROR"
    /\ ~last.faulted

\* the call that does take the owner authorisation
C31_Taken == LockOwnerRan /\ last.owned /\ last.ret = "EFI_SUCCESS"

\* provisioning incomplete, owner authorisation set: EFI_SUCCESS
C31_OwnedReturnsSuccess ==
    /\ LockOwnerRan
    /\ ProvisionIncomplete(plat)
    /\ plat.owner
    /\ last.ret = "EFI_SUCCESS"
C32_SealSucceeds == last.op = "seal" => last.ret = "EFI_SUCCESS"

C32_SecondSealLocks == last.resealed /\ last.first_faulted /\ last.relocked
\* ------------------------------------------------- claims on the E820 table
E820Done == fn.pc = "e820_done"

\* an entry of the table covers descriptor d and has type type
Represented(d, e820_map, type) ==
    \E k \in 1 .. Len(e820_map) :
        /\ e820_map[k].type = type
        /\ e820_map[k].addr <= d.PhysicalStart
        /\ EndOf(d) <= e820_map[k].addr + e820_map[k].size

\* some entry of the table touches descriptor d
Touched(d, e820_map) ==
    \E k \in 1 .. Len(e820_map) :
        /\ e820_map[k].addr < EndOf(d)
        /\ d.PhysicalStart < e820_map[k].addr + e820_map[k].size

\* the type the specification gives a descriptor type
SpecifiedType(Type) ==
    CASE Type \in {"EfiLoaderCode", "EfiLoaderData", "EfiBootServicesCode",
                   "EfiBootServicesData", "EfiConventionalMemory"} -> "E820_RAM"
      [] Type = "EfiACPIReclaimMemory" -> "E820_ACPI"
      [] Type = "EfiACPIMemoryNVS" -> "E820_NVS"
      [] Type = "EfiUnusableMemory" -> "E820_UNUSABLE"
      [] OTHER -> "E820_RESERVED"

Descriptors == {fn.mem_entries[i] : i \in 1 .. Len(fn.mem_entries)}

\* C33: every descriptor of the firmware memory map is represented in the
\* E820 table with the mapped type, and every descriptor of another type,
\* the types the loader does not know included, as RESERVED.
C33_EveryDescriptorRepresented ==
    E820Done => \A d \in Descriptors :
        Represented(d, fn.boot_params.e820_map, SpecifiedType(d.Type))

\* C33, as the code has it, for a map that fits the table: a descriptor of a
\* type the switch names is represented with the mapped type, a descriptor
\* of any other type is left out of the table
C33_KnownRepresentedOthersSkipped ==
    (E820Done /\ fn.boot_params.past = 0) => \A d \in Descriptors :
        /\ d.Type \in KnownMemoryTypes =>
               Represented(d, fn.boot_params.e820_map, SpecifiedType(d.Type))
        /\ d.Type \notin KnownMemoryTypes =>
               ~Touched(d, fn.boot_params.e820_map)

C33_Witness ==
    /\ E820Done
    /\ fn.boot_params.past = 0
    /\ Len(fn.mem_entries) = E820_MAX
    /\ fn.mem_entries[E820_MAX - 1].Type = "EfiACPIMemoryNVS"
    /\ fn.mem_entries[E820_MAX].Type = "EfiRuntimeServicesData"
    /\ Represented(fn.mem_entries[E820_MAX - 1], fn.boot_params.e820_map,
                   "E820_NVS")
    /\ Represented(fn.mem_entries[E820_MAX], fn.boot_params.e820_map,
                   "E820_RESERVED")

\* a descriptor of a type the switch does not name, and no entry for it
C33_UnknownSkipped ==
    /\ E820Done
    /\ Len(fn.mem_entries) = 1
    /\ fn.mem_entries[1].Type = "EfiPersistentMemory"
    /\ fn.boot_params.e820_entries = 0
\* ------------------------------------------------ claims on the command line
\* the entries of string s, which sep separates, in order
RECURSIVE Split(_, _, _)
Split(s, sep, t) ==
    IF t > Len(s) THEN <<>>
    ELSE IF s[t] = sep THEN Split(s, sep, t + 1)
    ELSE LET e == CHOOSE j \in t + 1 .. Len(s) + 1 :
                      /\ j > Len(s) \/ s[j] = sep
                      /\ \A i \in t + 1 .. j - 1 : s[i] # sep
         IN <<SubSeq(s, t, e - 1)>> \o Split(s, sep, e)

\* how often entry e occurs in the sequence of entries es
Occurs(es, e) == Cardinality({i \in 1 .. Len(es) : es[i] = e})

\* the entries of es that satisfy Test, in order
RECURSIVE Those(_, _, _)
Those(es, Test(_), i) ==
    IF i > Len(es) THEN <<>>
    ELSE (IF Test(es[i]) THEN <<es[i]>> ELSE <<>>) \o Those(es, Test, i + 1)

\* an androidboot.* entry
DottedAndroidboot(e) == Len(e) >= 2 /\ e[1] = "androidboot" /\ e[2] = "."

\* an entry that starts with androidboot
AnyAndroidboot(e) == e[1] = "androidboot"
NotAndroidboot(e) == e[1] # "androidboot"

V4Done == fn.pc = "cmdline_done" /\ fn.header_version > BOOT_HEADER_V3

Composed == Split(fn.cmd_conf, " ", 1)
Bootconfig == Split(fn.androidcmd, "\n", 1)
KernelCmdline == Split(fn.cmdline, " ", 1)

\* C34: for a v4 image every androidboot.* entry of the composed command
\* line is in the bootconfig section and not on the kernel command line,
\* every other entry is on the kernel command line and not in the bootconfig
\* section, and no entry is lost or duplicated.
C34_EntriesPartitioned ==
    V4Done => \A i \in 1 .. Len(Composed) :
        LET e == Composed[i]
        IN IF DottedAndroidboot(e)
           THEN Occurs(Bootconfig, e) = Occurs(Composed, e)
                    /\ Occurs(KernelCmdline, e) = 0
           ELSE Occurs(KernelCmdline, e) = Occurs(Composed, e)
                    /\ Occurs(Bootconfig, e) = 0

\* what classify_cmd_parameters stores for entry i of the composed line
Stored(es, i) ==
    IF /\ es[i][Len(es[i])] = "="
       /\ i < Len(es) \/ fn.cmd_conf[Len(fn.cmd_conf)] = " "
    THEN Append(es[i], "unknown")
    ELSE es[i]

\* C34, as the code has it: the entries that start with androidboot, dot or
\* no dot, make up the bootconfig section, in order, one that ends in "="
\* and has a blank after it with "unknown" appended; all other
\* entries make up the kernel command line, in order
C34_EntriesPartitionedByPrefix ==
    V4Done =>
        /\ fn.ret = "EFI_SUCCESS"
        /\ KernelCmdline = Those(Composed, NotAndroidboot, 1)
        /\ Len(Bootconfig) = Len(Those(Composed, AnyAndroidboot, 1))
        /\ \A i \in 1 .. Len(Composed) :
               AnyAndroidboot(Composed[i]) =>
                   LET n == Len(Those(SubSeq(Composed, 1, i), AnyAndroidboot, 1))
                   IN Bootconfig[n] = Stored(Composed, i)

C34_Witness ==
    /\ V4Done
    /\ Composed = << <<"k">>, <<"androidboot", ".", "k">> >>
    /\ Bootconfig = << <<"androidboot", ".", "k">> >>
    /\ KernelCmdline = << <<"k">> >>

\* an androidboot.* entry with an empty value reaches the bootconfig section
\* with the value unknown
C34_EmptyValueRewritten ==
    /\ V4Done
    /\ Composed = << <<"androidboot", ".", "=">>, <<"k">> >>
    /\ Bootconfig = << <<"androidboot", ".", "=", "unknown">> >>

\* an entry that starts with androidboot without the dot is taken off the
\* kernel command line
C34_UndottedMoved ==
    /\ V4Done
    /\ Composed = << <<"androidboot", "k">> >>
    /\ Bootconfig = Composed
    /\ KernelCmdline = <<>>
\* ------------------------------------------------ claims on the boot reason
ReasonDone == fn.pc = "reason_done"

\* the boot reason with another content of the variable
Otherwise(v) == get_boot_reason(fn.wake_source, fn.reset_source, v, fn.ignore_na)

\* the variable has a say: some other content gives another boot reason
VariableCounts == \E v \in RebootReasons : Otherwise(v) # fn.bootreason

LeftToVariable ==
    /\ get_wake_reason(fn.wake_source) = NoReason
    /\ get_reset_reason(fn.reset_source, fn.ignore_na) \in {NoReason, OS_INITIATED}

C35_VariableWithoutOsInitiated ==
    /\ ReasonDone
    /\ fn.wake_source = "WAKE_NOT_APPLICABLE"
    /\ fn.reset_source = "RESET_ERROR"
    /\ fn.var.text = <<"a">>
    /\ fn.bootreason = <<"a">>
\* ------------------------------------------------ claims on the TEE channel
TeeOps == {"init", "seal", "read_state", "write_state", "read_rb", "write_rb"}

\* C36: a remote-TEE store operation reports success only if the peer
\* processed the request: with the shared-memory channel not initialised
\* it returns an error.
C36_TeeSuccessOnlyIfProcessed ==
    (tee_tpm /\ g_ivshmem_rot_addr = 0 /\ last.op \in TeeOps)
        => EFI_ERROR(last.ret)

\* the device state read over a channel that was never set up: EFI_SUCCESS
C36_ReadWithoutChannel ==
    /\ tee_tpm
    /\ g_ivshmem_rot_addr = 0
    /\ last.op = "read_state"
    /\ last.ret = "EFI_SUCCESS"
    /\ ~last.faulted

\* EFI_ERROR on a status kept as a number: the high bit of a UINTN
StatusIsError(ret) == ret > 2147483647

\* a request larger than the slot comes back with ret NOT_READY_MAGIC, which
\* is no error status
C36_TooLargeIsNoError ==
    /\ tw.pc = "done"
    /\ tw.rot_addr # 0
    /\ tw.req_size > 4096
    /\ ~tw.forwarded
    /\ tw.ret = NOT_READY_MAGIC
    /\ ~StatusIsError(tw.ret)

\* with the channel set up, what the operation returns is the peer's status
C36_ProcessedWhenChannel ==
    (tee_tpm /\ g_ivshmem_rot_addr # 0 /\ last.op \in TeeOps /\ ~last.faulted)
        => last.ret \in {"EFI_SUCCESS", "EFI_NOT_FOUND", "EFI_NOT_READY",
                         "EFI_ACCESS_DENIED", "EFI_INVALID_PARAMETER",
                         "EFI_DEVICE_ERROR", "EFI_SECURITY_VIOLATION",
                         "EFI_UNSUPPORTED", "EFI_COMPROMISED_DATA"}
\* ------------------------------------------- claims on a failed store init
Failure(ret) == ret \notin {"none", "EFI_SUCCESS", "EFI_NOT_FOUND"}

\* ivshmem_init, tee_tpm2_init or tpm2_init of this boot returned an error
\* other than EFI_NOT_FOUND
StoreInitFailed ==
    /\ pc # "start"
    /\ Failure(obs.init.ivshmem) \/ Failure(obs.init.tpm)

\* efi_main has left the device-state checks of this boot behind
PastChecks == pc \notin {"start", "default_state", "check_state"}

\* C37 as stated: after a store initialisation that failed with an error
\* other than not-found the boot enters fastboot mode, and no boot image is
\* verified or handed over for the target selected before.
C37_InitFailureEntersFastboot ==
    StoreInitFailed =>
        /\ boot_target = "FASTBOOT"
        /\ pc \notin {"verify", "load"}
        /\ obs.hand.done => obs.fastboot
        /\ PastChecks => obs.fastboot

\* C37: after a store initialisation that failed with an error other than
\* not-found the boot target is FASTBOOT; efi_main never reaches the
\* verification or the loading of the image of the target selected before,
\* and a kernel is handed over only from inside fastboot mode; the boot
\* enters fastboot mode unless it halts or resets at the warning about a
\* live boot or about disabled secure boot, which precedes it.
C37_InitFailureNeverBootsTarget ==
    StoreInitFailed =>
        /\ boot_target = "FASTBOOT"
        /\ pc \notin {"verify", "load"}
        /\ obs.hand.done => obs.fastboot
        /\ pc = "kernel" => obs.hand.done
        /\ (PastChecks /\ ~obs.fastboot) =>
               /\ pc \in {"halt", "reset"}
               /\ build # "eng"
               /\ live_boot \/ (~secure_boot /\ ~vstate.provisioning_mode)

\* fastboot mode entered after tpm2_init failed on a boot to NORMAL_BOOT
C37_Witness ==
    /\ StoreInitFailed
    /\ obs.init.target = "NORMAL_BOOT"
    /\ Failure(obs.init.tpm)
    /\ pc = "fastboot"
    /\ obs.fastboot
    /\ ~obs.hand.done

\* the boot halted at the secure-boot warning before fastboot mode
C37_HaltsBeforeFastboot ==
    /\ StoreInitFailed
    /\ pc = "halt"
    /\ ~obs.fastboot

\* ivshmem_init failed and tee_tpm2_init succeeded: still fastboot
C37_IvshmemFailureAlone ==
    /\ StoreInitFailed
    /\ Failure(obs.init.ivshmem)
    /\ obs.init.tpm = "EFI_SUCCESS"
    /\ pc = "fastboot"

\* EFI_NOT_FOUND from ivshmem_init lets the boot go on to its target
C37_NotFoundGoesOn ==
    /\ obs.init.ivshmem = "EFI_NOT_FOUND"
    /\ obs.init.target = "NORMAL_BOOT"
    /\ pc = "verify"
\* ------------------------------------------- claims on the slot of an index
RollbackOps == {"read_rb", "write_rb"}

\* C38: read_rollback_index and write_rollback_index reject a slot outside
\* the array of the record with EFI_INVALID_PARAMETER and leave the stored
\* record unchanged, on every backing.
C38_SlotOutsideRejected ==
    (last.op \in RollbackOps /\ last.outside)
        => (last.ret = "EFI_INVALID_PARAMETER" /\ ~last.rewrote)

\* the EFI-variable backing stores the index of a slot outside the array
C38_EfiStoresOutside ==
    /\ ~tee_tpm /\ ~andr_tpm
    /\ last.op = "write_rb"
    /\ last.outside
    /\ last.ret = "EFI_SUCCESS"
    /\ last.rewrote

\* the remote-TEE backing, its channel set up, answers EFI_SUCCESS too
C38_TeeAcceptsOutside ==
    /\ tee_tpm
    /\ g_ivshmem_rot_addr # 0
    /\ last.op = "write_rb"
    /\ last.outside
    /\ last.ret = "EFI_SUCCESS"

\* the TPM backing does what the sentence says
C38_TpmRejectsOutside ==
    (andr_tpm /\ ~tee_tpm /\ last.op \in RollbackOps /\ last.outside)
        => (last.ret = "EFI_INVALID_PARAMETER" /\ ~last.rewrote /\ ~last.faulted)
\* C39: for every firmware memory map setup_e820_map writes at most 128 E820
\* entries, never writes past the end of boot_params.e820_map, and the
\* stored e820_entries equals the number of entries written.
C39_E820Bounded ==
    E820Done =>
        /\ Len(fn.boot_params.e820_map) + fn.boot_params.past <= E820_MAX
        /\ fn.boot_params.past = 0
        /\ fn.boot_params.e820_entries =
               Len(fn.boot_params.e820_map) + fn.boot_params.past

\* one entry more than the array holds
C39_WritesPastEnd ==
    /\ E820Done
    /\ Len(fn.mem_entries) = E820_MAX + 1
    /\ fn.boot_params.past = 1
    /\ fn.boot_params.e820_entries = E820_MAX + 1

\* 256 entries written, a count of 0 stored
C39_CountWraps ==
    /\ E820Done
    /\ Len(fn.boot_params.e820_map) + fn.boot_params.past = UINT8_RANGE
    /\ fn.boot_params.e820_entries = 0

\* for a map that fits, the stored count is the number of entries written
C39_CountWhenFits ==
    (E820Done /\ fn.boot_params.past = 0) =>
        fn.boot_params.e820_entries = Len(fn.boot_params.e820_map)
\* --------------------------------------- claims on a kernel that never starts
Ended == pc \in {"recover", "halt"}

\* C40: when the start of the kernel fails on every boot, each failed start
\* marks the attempted slot as failed before the reboot, and after finitely
\* many reboots the loader ends in recover mode.
C40_FailingStartsEndInRecovery ==
    /\ [](pc = "reset" => ab.slots[ab.cur].priority = 0)
    /\ <>Ended

\* a reboot with the attempted slot still enabled: load_image returned
\* before android_image_start_buffer
C40_RebootUnmarked ==
    /\ pc = "reset"
    /\ ~ab.tried
    /\ ab.slots[ab.cur].priority > 0
    /\ slot_get_active(ab.slots) = ab.cur

\* a failed android_image_start_buffer disables the slot before the reboot
C40_StartFailureMarks ==
    (pc \in {"reset", "recover"} /\ ab.tried) => ab.slots[ab.cur].priority = 0

\* when load_image gets as far as android_image_start_buffer from some boot
\* on, the reboots come to an end
C40_EndsWhenStartReached ==
    <>[](pc \in {"reset", "recover"} => ab.tried) => <>Ended

\* recover mode after both slots were tried and disabled
C40_BothSlotsDisabled ==
    /\ pc = "recover"
    /\ \A s \in SlotNames : ab.slots[s].priority = 0

\* the reboots come to an end
C40_RebootsEnd == <>Ended

====
